---- MODULE Spec2Model ----
(***************************************************************************)
(* Execution-and-reconciliation engine of the SWHID testing harness.       *)
(*                                                                         *)
(*   SpecCmp  the two comparators (harness/comparator.py and               *)
(*            SwhidHarness._compare_results) applied to bounded outcome    *)
(*            maps, expected identifiers and expected errors.              *)
(*   Spec     one invocation of the command line: SwhidHarness.run_tests   *)
(*            over a configuration, then the report and the exit status    *)
(*            of main.                                                     *)
(***************************************************************************)
EXTENDS Integers, Sequences, FiniteSets, TLC

(***************************************************************************)
(* Bounds of the model.                                                    *)
(***************************************************************************)
\* number of distinct identifier strings a candidate can return
NumIds == 2
\* largest outcome map handed to a comparator
MaxOutcomes == 2
\* largest number of payloads in the configuration
MaxPayloads == 2
\* largest number of loaded implementations
NumImpls == 2
\* number of worker threads extracting archives
NumWorkers == 2
\* largest number of temporary directories one process creates
MaxDirs == 3

(***************************************************************************)
(* Values.                                                                 *)
(***************************************************************************)
\* a null or empty identifier (Optional[str]; `if r.swhid` is false for both)
NoSwhid == 0
\* identifier strings, numbered
Ids == 1..NumIds
\* error is None
NoError == "None"
\* expected_error is None
NoExpectedError == "None"
\* the identifier versions a result can carry
Versions == {1, 2}

\* error texts a result can carry, one representative per shape
ErrUnsupportedType == "Object type 'snapshot' (SWHID code 'snp') not supported by implementation"
ErrUnsupportedRaised == "Object type not supported: Operation not supported"
ErrPayloadNotFound == "Payload file not found"
ErrCompute == "Test error"
ErrObjectTypeText == "Invalid object type"
ErrEmpty == ""
\* tarfile.ReadError raised by tarfile.open on a corrupt archive
ErrExtract == "file could not be opened successfully"
\* a text a candidate can raise that mentions support
ErrRawNotSupported == "Operation not supported"

ErrorTexts ==
  {ErrUnsupportedType, ErrUnsupportedRaised, ErrPayloadNotFound, ErrCompute,
   ErrObjectTypeText, ErrEmpty, ErrExtract}

\* the texts SubprocessAdapter and JSONProtocolAdapter raise, one per shape
\* (timeout 30 s and max_rss_mb 500 are the constructors' defaults)
ErrTimedOut == "Implementation timed out after 30s"
ErrRssLimit == "RSS limit exceeded: 600000KB > 512000KB"
ErrImplFailedUnknown == "Implementation failed (exit 1): Unknown error"
\* a child ended by SIGXCPU has returncode -24 and wrote nothing
ErrImplFailedXcpu == "Implementation failed (exit -24): Unknown error"
\* a child whose allocation failed under RLIMIT_AS and died on MemoryError
ErrImplFailedMemory == "Implementation failed (exit 1): MemoryError"
\* run_impl.py exits 1 after an ok:false response; stderr is empty, so the
\* text after the colon is the response itself
ErrImplFailedCompute ==
  "Implementation failed (exit 1): {\"ok\": false, \"error\": {\"message\": \"Test error\", \"code\": \"COMPUTE_ERROR\"}}"
ErrImplFailedLoad ==
  "Implementation failed (exit 1): {\"ok\": false, \"error\": {\"message\": \"Failed to load implementation\", \"code\": \"LOAD_ERROR\"}}"
ErrProcFailedUnknown == "Process failed (exit 1): Unknown error"
ErrProcFailedXcpu == "Process failed (exit -24): Unknown error"
ErrProcFailedMemory == "Process failed (exit 1): MemoryError"
ErrProcFailedCompute ==
  "Process failed (exit 1): {\"ok\": false, \"error\": {\"message\": \"Test error\", \"code\": \"COMPUTE_ERROR\"}}"
ErrProcFailedLoad ==
  "Process failed (exit 1): {\"ok\": false, \"error\": {\"message\": \"Failed to load implementation\", \"code\": \"LOAD_ERROR\"}}"
ErrInvalidJson == "Invalid JSON response: Expecting value: line 1 column 1 (char 0)"
ErrImplError(code, message) == "Implementation error [" \o code \o "]: " \o message
ErrNoSwhidInResponse == "No SWHID in response"
\* TypeError of a call that passes keywords the method does not declare
ErrUnexpectedKeyword == "compute_swhid() got an unexpected keyword argument 'commit'"

\* the error codes a child's ok:false response can embed
EmbeddedCodes == {"COMPUTE_ERROR", "LOAD_ERROR", "VALIDATION_ERROR"}

ImplErrorTexts == {ErrImplError(code, "Test error") : code \in EmbeddedCodes}

ImplFailedTexts ==
  {ErrImplFailedUnknown, ErrImplFailedXcpu, ErrImplFailedMemory,
   ErrImplFailedCompute, ErrImplFailedLoad}

ProcFailedTexts ==
  {ErrProcFailedUnknown, ErrProcFailedXcpu, ErrProcFailedMemory,
   ErrProcFailedCompute, ErrProcFailedLoad}

\* `phrase in str(error).lower()` for the phrases the code looks for
LowerContains(text, phrase) ==
  CASE phrase = "object type" ->
         text \in {ErrUnsupportedType, ErrUnsupportedRaised, ErrObjectTypeText}
    [] phrase = "not support" ->
         text \in {ErrUnsupportedType, ErrUnsupportedRaised, ErrRawNotSupported}
    [] phrase = "not supported" ->
         text \in {ErrUnsupportedType, ErrUnsupportedRaised, ErrRawNotSupported}
    [] phrase = "unsupported" -> FALSE
    [] phrase = "does not support" -> FALSE
    [] phrase = "doesn't support" -> FALSE
    [] phrase = "file not found" -> text = ErrPayloadNotFound
    [] phrase = "timed out" -> text = ErrTimedOut
    [] phrase = "rss limit" -> text = ErrRssLimit
    [] phrase = "memory" -> text \in {ErrImplFailedMemory, ErrProcFailedMemory}
    [] phrase = "limit" -> text = ErrRssLimit
    [] phrase = "json" -> text = ErrInvalidJson
    [] phrase = "invalid" -> text \in {ErrInvalidJson, ErrObjectTypeText}
    [] phrase = "process" -> text \in ProcFailedTexts
    [] phrase = "failed" -> text \in ImplFailedTexts \cup ProcFailedTexts
    [] phrase = "version" -> FALSE
    [] OTHER -> FALSE

\* `phrase in str(error)`, case kept
Contains(text, phrase) ==
  CASE phrase = "Payload file not found" -> text = ErrPayloadNotFound
    [] phrase = "not supported by implementation" -> text = ErrUnsupportedType
    [] phrase = "Object type not supported" -> text = ErrUnsupportedRaised
    [] OTHER -> FALSE

\* SwhidTestResult: the fields the engine reads
SwhidTestResult(success, swhid, error, version) ==
  [success |-> success, swhid |-> swhid, error |-> error, version |-> version]

\* ComparisonResult: the fields the engine reads
ComparisonResult(results, all_match, es, es256) ==
  [results |-> results, all_match |-> all_match,
   expected_swhid |-> es, expected_swhid_sha256 |-> es256]

(***************************************************************************)
(* Helpers on sequences.                                                   *)
(***************************************************************************)
Range(s) == {s[i] : i \in 1..Len(s)}

SeqsUpTo(S, n) == UNION {[1..k -> S] : k \in 0..n}

(***************************************************************************)
(* harness/comparator.py                                                   *)
(***************************************************************************)
is_unsupported_result(result) ==
  IF result.success THEN FALSE
  ELSE IF result.error \in {NoError, ErrEmpty} THEN FALSE
  ELSE LowerContains(result.error, "object type")
       /\ LowerContains(result.error, "not support")

IsSupporting(r) == ~is_unsupported_result(r)

\* only the result inserted first is kept
supported_results_first(rs) ==
  LET kept == SelectSeq(rs, IsSupporting)
  IN IF kept = <<>> THEN kept ELSE <<kept[1]>>

\* supported_results = {name: result ... if not is_unsupported_result(result)}
supported_results_of(rs) == SelectSeq(rs, IsSupporting)

\* all_unsupported = results and all(is_unsupported_result(r) ...)
all_unsupported_of(rs) ==
  rs # <<>> /\ \A i \in 1..Len(rs) : is_unsupported_result(rs[i])

\* only a computation error counts as a rejection
all_failed_compute_only(rs) ==
  \A i \in 1..Len(rs) : ~rs[i].success /\ rs[i].error = ErrCompute

\* all_failed = all(not r.success ...)
all_failed_of(rs) == \A i \in 1..Len(rs) : ~rs[i].success

\* any() where all() is meant
all_success_any(rs) == \E i \in 1..Len(rs) : rs[i].success

\* all_success = all(r.success ...)
all_success_of(rs) == \A i \in 1..Len(rs) : rs[i].success

V1Swhid(r) == r.swhid # NoSwhid /\ r.version = 1

V2Swhid(r) == r.swhid # NoSwhid /\ r.version = 2

\* [r.swhid for r in ... if r.swhid and r.version == v]
swhids_of_version(rs, v) ==
  LET sel == IF v = 1 THEN SelectSeq(rs, V1Swhid) ELSE SelectSeq(rs, V2Swhid)
  IN [i \in 1..Len(sel) |-> sel[i].swhid]

\* len(swhids) where len(set(swhids)) is meant
group_match_len(swhids) ==
  IF swhids # <<>> THEN Len(swhids) = 1 ELSE TRUE

\* len(set(swhids)) == 1 if swhids else True
group_match(swhids) ==
  IF swhids # <<>> THEN Cardinality(Range(swhids)) = 1 ELSE TRUE

\* the secondary expected identifier is not looked at
expected_checked_primary_only(all_match, v1_swhids, v2_swhids, es, es256) ==
  IF ~all_match THEN all_match
  ELSE IF v1_swhids # <<>> /\ es # NoSwhid THEN v1_swhids[1] = es ELSE all_match

\* if all_match: compare the first identifier of each group with the expected one
expected_checked(all_match, v1_swhids, v2_swhids, es, es256) ==
  IF ~all_match THEN all_match
  ELSE
    LET m1 == IF v1_swhids # <<>> /\ es # NoSwhid THEN v1_swhids[1] = es ELSE all_match
    IN IF v2_swhids # <<>> /\ es256 # NoSwhid
       THEN m1 /\ v2_swhids[1] = es256
       ELSE m1

compare_results(rs, es, es256, ee) ==
  LET kept == supported_results_of(rs)
  IN IF kept = <<>> /\ all_unsupported_of(rs)
     THEN ComparisonResult(rs, TRUE, es, NoSwhid)
     ELSE
       LET supported_results == IF kept = <<>> THEN rs ELSE kept
           v1_swhids == swhids_of_version(supported_results, 1)
           v2_swhids == swhids_of_version(supported_results, 2)
           all_match == group_match(v1_swhids) /\ group_match(v2_swhids)
       IN IF ee # NoExpectedError /\ supported_results # <<>>
             /\ all_failed_of(supported_results)
          THEN ComparisonResult(rs, TRUE, es, es256)
          ELSE IF ~all_success_of(supported_results)
          THEN ComparisonResult(rs, FALSE, es, es256)
          ELSE ComparisonResult(
                 rs, expected_checked(all_match, v1_swhids, v2_swhids, es, es256),
                 es, es256)

(***************************************************************************)
(* harness/harness.py: SwhidHarness._compare_results                       *)
(***************************************************************************)
HasSwhid(r) == r.swhid # NoSwhid

\* [r.swhid for r in supported_results.values() if r.swhid]
harness_swhids(rs) ==
  LET sel == SelectSeq(rs, HasSwhid) IN [i \in 1..Len(sel) |-> sel[i].swhid]

\* len(set(swhids)) == 1 if swhids else False
harness_all_match(swhids) ==
  IF swhids # <<>> THEN Cardinality(Range(swhids)) = 1 ELSE FALSE

\* the unanimity branch is missing
harness_compare_results_no_unanimity(rs, es, ee) ==
  LET supported_results == IF supported_results_of(rs) = <<>> THEN rs
                           ELSE supported_results_of(rs)
      swhids == harness_swhids(supported_results)
      all_match == harness_all_match(swhids)
  IN IF ee # NoExpectedError /\ supported_results # <<>>
        /\ all_failed_of(supported_results)
     THEN ComparisonResult(rs, TRUE, es, NoSwhid)
     ELSE IF ~all_success_of(supported_results)
     THEN ComparisonResult(rs, FALSE, es, NoSwhid)
     ELSE ComparisonResult(
            rs, IF es # NoSwhid /\ all_match THEN swhids[1] = es ELSE all_match,
            es, NoSwhid)

harness_compare_results(rs, es, ee) ==
  LET kept == supported_results_of(rs)
  IN IF kept = <<>> /\ all_unsupported_of(rs)
     THEN ComparisonResult(rs, TRUE, es, NoSwhid)
     ELSE
       LET supported_results == IF kept = <<>> THEN rs ELSE kept
           swhids == harness_swhids(supported_results)
           all_match == harness_all_match(swhids)
       IN IF ee # NoExpectedError /\ supported_results # <<>>
             /\ all_failed_of(supported_results)
          THEN ComparisonResult(rs, TRUE, es, NoSwhid)
          ELSE IF ~all_success_of(supported_results)
          THEN ComparisonResult(rs, FALSE, es, NoSwhid)
          ELSE ComparisonResult(
                 rs, IF es # NoSwhid /\ all_match THEN swhids[1] = es ELSE all_match,
                 es, NoSwhid)

(***************************************************************************)
(* harness/harness.py: configuration and ordering                          *)
(***************************************************************************)
\* the strings a run orders, listed in the order of Python's str comparison
StringOrder ==
  <<"alpha", "alpha_2", "alpha_branch_main", "alpha_tag_v1.0",
    "content", "git", "git-repository", "synthetic_repo">>

StrRank(s) == CHOOSE i \in 1..Len(StringOrder) : StringOrder[i] = s

StrLess(a, b) == StrRank(a) < StrRank(b)

\* a payload entry of the configuration under its category key
PayloadEntry(category, name, discover_branches, discover_tags, es, es256, ee) ==
  [category |-> category, name |-> name,
   discover_branches |-> discover_branches, discover_tags |-> discover_tags,
   expected_swhid |-> es, expected_swhid_sha256 |-> es256, expected_error |-> ee]

\* the entries a configuration is written from: a content payload with both
\* expected identifiers, two git payloads, a repository archive whose branches
\* and tags are to be discovered, and a repository archive that is a
\* negative test
PayloadEntries ==
  {PayloadEntry("content", "alpha", FALSE, FALSE, 1, 2, "None"),
   PayloadEntry("git", "alpha", FALSE, FALSE, 0, 0, "None"),
   PayloadEntry("git", "synthetic_repo", FALSE, FALSE, 0, 0, "None"),
   PayloadEntry("git-repository", "alpha", TRUE, TRUE, 0, 0, "None"),
   PayloadEntry("git-repository", "alpha_2", FALSE, FALSE, 0, 0, "VALIDATION_ERROR")}

\* list(self.config["payloads"].keys()): the categories in file order
RECURSIVE config_categories(_)
config_categories(cfg) ==
  IF cfg = <<>> THEN <<>>
  ELSE LET front == config_categories(SubSeq(cfg, 1, Len(cfg) - 1))
           c == cfg[Len(cfg)].category
       IN IF c \in Range(front) THEN front ELSE Append(front, c)

\* self.config["payloads"][category]: the payloads of a category in file order
category_payloads(cfg, category) ==
  LET InCategory(p) == p.category = category IN SelectSeq(cfg, InCategory)

\* the categories are taken in file order
sorted_categories_unsorted(cats) == cats

\* sorted(categories): stable insertion by str order
RECURSIVE sorted_categories(_)
sorted_categories(cats) ==
  IF cats = <<>> THEN <<>>
  ELSE LET front == sorted_categories(SubSeq(cats, 1, Len(cats) - 1))
           x == cats[Len(cats)]
           k == Cardinality({i \in 1..Len(front) : ~StrLess(x, front[i])})
       IN SubSeq(front, 1, k) \o <<x>> \o SubSeq(front, k + 1, Len(front))

\* the payloads are taken in file order
sorted_payloads_unsorted(ps) == ps

\* sorted(payloads, key=name): stable insertion by str order of the name
RECURSIVE sorted_payloads(_)
sorted_payloads(ps) ==
  IF ps = <<>> THEN <<>>
  ELSE LET front == sorted_payloads(SubSeq(ps, 1, Len(ps) - 1))
           x == ps[Len(ps)]
           k == Cardinality({i \in 1..Len(front) : ~StrLess(x.name, front[i].name)})
       IN SubSeq(front, 1, k) \o <<x>> \o SubSeq(front, k + 1, Len(front))

\* `payloads` argument (None or empty: no filter)
NoFilter == {}

\* [p for p in category_payloads if p.get("name") in payloads]
filter_payloads(ps, names) ==
  LET Named(p) == p.name \in names
  IN IF names = NoFilter THEN ps ELSE SelectSeq(ps, Named)

\* the payloads the two nested loops of run_tests visit, in visiting order
RECURSIVE visit_order(_, _, _)
visit_order(cats, cfg, names) ==
  IF cats = <<>> THEN <<>>
  ELSE filter_payloads(sorted_payloads(category_payloads(cfg, Head(cats))), names)
         \o visit_order(Tail(cats), cfg, names)

(***************************************************************************)
(* harness/harness.py: candidates and _run_single_test                     *)
(***************************************************************************)
AllTypeCodes == {"cnt", "dir", "rev", "rel", "snp"}

\* a loaded implementation: its declared type codes and what compute_swhid does
Candidate(supported_types, raises, swhid) ==
  [supported_types |-> supported_types, raises |-> raises, swhid |-> swhid]

\* the candidates a run can load: one that computes every type, and one that
\* declares contents only and whose compute_swhid raises
Candidates ==
  {Candidate(AllTypeCodes, NoError, 1),
   Candidate({"cnt"}, ErrCompute, NoSwhid)}

\* implementation.detect_object_type on a payload of the configuration: the
\* payloads whose type is detected are repositories
detect_object_type == "snapshot"

\* no category given: None (or the empty string, `if category:`)
NoCategory == ""

\* category.startswith(prefix) for the categories and prefixes at hand
StartsWith(category, prefix) ==
  CASE prefix = "content/" -> category = "content/text"
    [] prefix = "directory/" -> category = "directory/nested"
    [] OTHER -> FALSE

\* auto-detection comes first and the category only refines what it finds
object_type_detect_first(category, detected) ==
  IF detected = "snapshot" \/ category = NoCategory
  THEN [obj_type |-> detected, detected_used |-> TRUE]
  ELSE IF category = "content" \/ StartsWith(category, "content/")
  THEN [obj_type |-> "content", detected_used |-> TRUE]
  ELSE IF category = "directory" \/ StartsWith(category, "directory/")
  THEN [obj_type |-> "directory", detected_used |-> TRUE]
  ELSE [obj_type |-> detected, detected_used |-> TRUE]

\* the object type run_single_test works with, and whether
\* implementation.detect_object_type was called to get it
object_type_for(category, detected) ==
  IF category = NoCategory
  THEN [obj_type |-> detected, detected_used |-> TRUE]
  ELSE IF category = "content" \/ StartsWith(category, "content/")
  THEN [obj_type |-> "content", detected_used |-> FALSE]
  ELSE IF category = "directory" \/ StartsWith(category, "directory/")
  THEN [obj_type |-> "directory", detected_used |-> FALSE]
  ELSE IF category = "git"
  THEN [obj_type |-> "snapshot", detected_used |-> FALSE]
  ELSE IF category = "git-repository"
  THEN [obj_type |-> detected, detected_used |-> TRUE]
  ELSE IF category = "revision"
  THEN [obj_type |-> "revision", detected_used |-> FALSE]
  ELSE IF category = "release"
  THEN [obj_type |-> "release", detected_used |-> FALSE]
  ELSE [obj_type |-> detected, detected_used |-> TRUE]

\* category -> object type for the payloads of the configuration
category_object_type(category) ==
  object_type_for(category, detect_object_type).obj_type

_obj_type_to_swhid_code(obj_type) ==
  CASE obj_type = "content" -> "cnt"
    [] obj_type = "directory" -> "dir"
    [] obj_type = "revision" -> "rev"
    [] obj_type = "release" -> "rel"
    [] obj_type = "snapshot" -> "snp"
    [] OTHER -> obj_type

\* any(phrase in error_str.lower() for phrase in [...]) of _run_single_test
mentions_unsupported(text) ==
  \E phrase \in {"doesn't support", "does not support", "not support",
                 "unsupported", "not supported"} : LowerContains(text, phrase)

\* a result of _run_single_test (this SwhidTestResult has no version field;
\* every identifier is a primary one)
TestResult(impl_name, success, swhid, error) ==
  [implementation |-> impl_name, success |-> success, swhid |-> swhid,
   error |-> error, version |-> 1]

\* the except branch of _run_single_test
failed_test(impl_name, error_str) ==
  IF mentions_unsupported(error_str)
  THEN TestResult(impl_name, FALSE, NoSwhid, ErrUnsupportedRaised)
  ELSE TestResult(impl_name, FALSE, NoSwhid, error_str)

\* _run_single_test; extract_raises: _extract_tarball_if_needed raises
run_single_test(impl_name, impl, category, extract_raises) ==
  IF extract_raises THEN failed_test(impl_name, ErrExtract)
  ELSE
    LET obj_type == category_object_type(category)
        swhid_code == _obj_type_to_swhid_code(obj_type)
    IN IF swhid_code \notin impl.supported_types
       THEN TestResult(impl_name, FALSE, NoSwhid, ErrUnsupportedType)
       ELSE IF impl.raises # NoError
       THEN failed_test(impl_name, impl.raises)
       ELSE TestResult(impl_name, TRUE, impl.swhid, NoError)

\* no version argument (None)
NoVersion == 0

\* what a call of TestRunner.run_single_test is given and meets: the category,
\* what detect_object_type would answer, the candidate's declared codes, what
\* its compute_swhid raises (or NoError), whether the extraction raises, the
\* version argument and the version prefix of the identifier it returns
SingleTestCall(category, detected, supported_types, raises, extract_raises, version, prefix) ==
  [category |-> category, detected |-> detected,
   supported_types |-> supported_types, raises |-> raises,
   extract_raises |-> extract_raises, version |-> version, prefix |-> prefix]

\* the candidate and the payload a call of run_single_test is made for
TestIdentity(implementation, payload_name) ==
  [implementation |-> implementation, payload_name |-> payload_name]

TestIdentities ==
  {TestIdentity(i, p) : i \in {"alpha-impl", "beta-impl"}, p \in {"hello.txt", "nested"}}

\* payload_name=payload_name, implementation=implementation.get_info().name:
\* the two fields every SwhidTestResult of run_single_test is built with
result_identity(id) ==
  [implementation |-> id.implementation, payload_name |-> id.payload_name]

\* an except branch that loses the exception text
runner_failed_test_silent(error_str, version) ==
  LET v == IF version # NoVersion THEN version ELSE 1
  IN SwhidTestResult(FALSE, NoSwhid, NoError, v)

\* the except branch of TestRunner.run_single_test
runner_failed_test(error_str, version) ==
  LET v == IF version # NoVersion THEN version ELSE 1
  IN IF mentions_unsupported(error_str)
     THEN SwhidTestResult(FALSE, NoSwhid, ErrUnsupportedRaised, v)
     ELSE SwhidTestResult(FALSE, NoSwhid, error_str, v)

\* TestRunner.run_single_test: the outcome, the object type worked with (or
\* "none"), whether detection was consulted and whether compute_swhid was called
runner_run_single_test(c) ==
  IF c.extract_raises
  THEN [result |-> runner_failed_test(ErrExtract, c.version), obj_type |-> "none",
        detected_used |-> FALSE, computed |-> FALSE]
  ELSE
    LET t == object_type_for(c.category, c.detected)
        swhid_code == _obj_type_to_swhid_code(t.obj_type)
        v == IF c.version # NoVersion THEN c.version ELSE 1
    IN IF swhid_code \notin c.supported_types
       THEN [result |-> SwhidTestResult(FALSE, NoSwhid, ErrUnsupportedType, v),
             obj_type |-> t.obj_type, detected_used |-> t.detected_used,
             computed |-> FALSE]
       ELSE IF c.raises # NoError
       THEN [result |-> runner_failed_test(c.raises, c.version),
             obj_type |-> t.obj_type, detected_used |-> t.detected_used,
             computed |-> TRUE]
       ELSE [result |-> SwhidTestResult(
                          TRUE, 1, NoError,
                          IF c.version # NoVersion THEN c.version
                          ELSE IF c.prefix = 2 THEN 2 ELSE 1),
             obj_type |-> t.obj_type, detected_used |-> t.detected_used,
             computed |-> TRUE]

\* does _run_single_test reach implementation.compute_swhid
calls_compute(impl, category, extract_raises) ==
  /\ ~extract_raises
  /\ _obj_type_to_swhid_code(category_object_type(category))
       \in impl.supported_types

\* the orders in which the futures of one payload can complete
completion_orders(n) ==
  {f \in [1..n -> 1..n] : \A i, j \in 1..n : i # j => f[i] # f[j]}

\* a loop that files each outcome under the name of the task submitted at
\* the same position, not of the task that completed
collect_results_by_position(impls, order, category, extract_raises) ==
  [j \in 1..Len(impls) |->
     run_single_test(order[j], impls[j], category, extract_raises)]

\* results[...] = future.result(), the values in completion order
collect_results(impls, order, category, extract_raises) ==
  [j \in 1..Len(impls) |->
     run_single_test(order[j], impls[order[j]], category, extract_raises)]

\* the outcome map as a map: the result of each implementation, by implementation
by_implementation(rs) ==
  [i \in 1..Len(rs) |-> rs[CHOOSE j \in 1..Len(rs) : rs[j].implementation = i]]

\* a verdict appended to all_results: the ComparisonResult the code builds,
\* and beside it the configured payload being visited (its category and name)
Verdict(payload, payload_name, cr) ==
  [category |-> payload.category, origin |-> payload.name,
   payload_name |-> payload_name,
   results |-> by_implementation(cr.results),
   all_match |-> cr.all_match, expected_swhid |-> cr.expected_swhid]

\* branch.replace('/', '_') and tag.replace('/', '_') on the refs listed
replace_slash(ref) ==
  CASE ref = "main" -> "main"
    [] ref = "v1.0" -> "v1.0"
    [] ref = "feature/x" -> "feature_x"
    [] ref = "feature_x" -> "feature_x"
    [] ref = "topic" -> "topic"
    [] ref = "upstream/dev" -> "upstream_dev"
    [] ref = "HEAD -> origin/main" -> "HEAD -> origin_main"
    [] ref = "(HEAD detached at 1a2b3c4)" -> "(HEAD detached at 1a2b3c4)"
    [] ref = "rel/1" -> "rel_1"
    [] ref = "rel_1" -> "rel_1"
    [] ref = "v1.0-light" -> "v1.0-light"

\* f"{base_name}_branch_{...}" and f"{base_name}_tag_{...}"
branch_test_name(base_name, branch) == base_name \o "_branch_" \o replace_slash(branch)

tag_test_name(base_name, tag) == base_name \o "_tag_" \o replace_slash(tag)

\* one payload (or one discovered ref) run on every implementation and compared
test_payload(impls, order, category, payload, payload_name, es, ee, extract_raises) ==
  Verdict(payload, payload_name,
          harness_compare_results(
            collect_results(impls, order, category, extract_raises), es, ee))

\* the verdict of a payload whose path does not exist: all_match is False whatever
\* the payload expects
skipped_verdict_agreeing(impls, payload) ==
  Verdict(payload, payload.name,
          ComparisonResult(
            [i \in 1..Len(impls) |-> TestResult(i, FALSE, NoSwhid, ErrPayloadNotFound)],
            payload.expected_error # NoExpectedError, payload.expected_swhid, NoSwhid))

\* the skip verdict of a payload whose path does not exist
skipped_verdict(impls, payload) ==
  Verdict(payload, payload.name,
          ComparisonResult(
            [i \in 1..Len(impls) |-> TestResult(i, FALSE, NoSwhid, ErrPayloadNotFound)],
            FALSE, payload.expected_swhid, NoSwhid))

(***************************************************************************)
(* harness/harness.py: get_canonical_results                               *)
(***************************************************************************)
_classify_error(text) ==
  IF LowerContains(text, "timeout") \/ LowerContains(text, "timed out")
  THEN <<"TIMEOUT", "wall_clock">>
  ELSE IF \/ LowerContains(text, "rss limit")
          \/ LowerContains(text, "memory")
          \/ LowerContains(text, "resource")
  THEN <<"RESOURCE_LIMIT", "memory">>
  ELSE IF LowerContains(text, "cpu") /\ LowerContains(text, "limit")
  THEN <<"RESOURCE_LIMIT", "cpu">>
  ELSE IF LowerContains(text, "file not found") \/ LowerContains(text, "no such file")
  THEN <<"IO_ERROR", "file_not_found">>
  ELSE IF LowerContains(text, "permission denied") \/ LowerContains(text, "permission")
  THEN <<"IO_ERROR", "permission_denied">>
  ELSE IF /\ LowerContains(text, "json")
          /\ LowerContains(text, "decode") \/ LowerContains(text, "invalid")
  THEN <<"IO_ERROR", "protocol_violation">>
  ELSE IF /\ LowerContains(text, "process")
          /\ LowerContains(text, "failed") \/ LowerContains(text, "crashed")
  THEN <<"IO_ERROR", "process_crash">>
  ELSE IF LowerContains(text, "invalid swhid") \/ LowerContains(text, "invalid format")
  THEN <<"PARSE_ERROR", "format">>
  ELSE IF /\ LowerContains(text, "invalid")
          /\ LowerContains(text, "scheme") \/ LowerContains(text, "version")
  THEN <<"PARSE_ERROR", "syntax">>
  ELSE IF LowerContains(text, "hash") /\ LowerContains(text, "match")
  THEN <<"VALIDATION_ERROR", "hash_mismatch">>
  ELSE IF LowerContains(text, "semantic")
  THEN <<"VALIDATION_ERROR", "semantic">>
  ELSE IF LowerContains(text, "mismatch")
  THEN <<"MISMATCH_ERROR", "value">>
  ELSE <<"COMPUTE_ERROR", "exception">>

CanonicalResult(impl_name, status, code, subtype) ==
  [implementation |-> impl_name, status |-> status, code |-> code, subtype |-> subtype]

\* the status and error of one implementation's result in a test case
canonical_result(r, es) ==
  IF ~r.success
  THEN
    LET is_skipped ==
          \/ Contains(r.error, "Payload file not found")
          \/ Contains(r.error, "not supported by implementation")
          \/ Contains(r.error, "Object type not supported")
          \/ \E phrase \in {"doesn't support", "does not support",
                            "not support", "unsupported"} :
               LowerContains(r.error, phrase)
    IN IF is_skipped
       THEN IF LowerContains(r.error, "file not found")
               \/ Contains(r.error, "Payload file not found")
            THEN CanonicalResult(r.implementation, "SKIPPED", "IO_ERROR", "file_not_found")
            ELSE CanonicalResult(r.implementation, "SKIPPED", "VALIDATION_ERROR",
                                 "unsupported_type")
       ELSE CanonicalResult(r.implementation, "FAIL",
                            _classify_error(r.error)[1], _classify_error(r.error)[2])
  ELSE IF es # NoSwhid /\ r.swhid # es
  THEN CanonicalResult(r.implementation, "FAIL", "MISMATCH_ERROR", "swhid")
  ELSE CanonicalResult(r.implementation, "PASS", "None", "None")

\* TestCase(id, results) for one verdict
test_case(v) ==
  [id |-> v.payload_name,
   results |-> [i \in 1..Len(v.results) |-> canonical_result(v.results[i], v.expected_swhid)]]

\* canonical_results.tests
get_canonical_results(verdicts) ==
  [i \in 1..Len(verdicts) |-> test_case(verdicts[i])]

(***************************************************************************)
(* harness/plugins/subprocess_adapter.py and harness/plugins/run_impl.py   *)
(***************************************************************************)
\* the variables the adapters copy when clean_env is set
AllowList == {"PATH", "HOME", "PYTHONPATH", "LANG", "LC_ALL", "LC_CTYPE"}
\* the variables an orchestrator environment is looked at for
EnvNames == AllowList \cup {"API_TOKEN"}
\* a variable that is not in the environment
Unset == "<unset>"
\* Path(__file__).parent.parent.parent.absolute()
project_root == "/repo"

Environment(path, home, pythonpath, lang, lc_all, lc_ctype, api_token) ==
  [n \in EnvNames |->
     CASE n = "PATH" -> path
       [] n = "HOME" -> home
       [] n = "PYTHONPATH" -> pythonpath
       [] n = "LANG" -> lang
       [] n = "LC_ALL" -> lc_all
       [] n = "LC_CTYPE" -> lc_ctype
       [] n = "API_TOKEN" -> api_token]

\* os.environ of the orchestrator
OrchestratorEnvironments ==
  {Environment(Unset, Unset, Unset, Unset, Unset, Unset, Unset),
   Environment("/usr/local/bin", "/home/ci", Unset, "C", Unset, Unset, Unset),
   Environment("/usr/local/bin", "/home/ci", Unset, "C", Unset, Unset, "s3cret"),
   Environment("/usr/local/bin", "/home/ci", Unset, "C", Unset, Unset, "0ther"),
   Environment("/usr/local/bin", "/home/ci", "/opt/lib", "C", "C.UTF-8", "C.UTF-8", "s3cret"),
   Environment("/usr/local/bin", "/home/ci", "/opt/lib", "C", "C.UTF-8", "C.UTF-8", Unset)}

\* the PYTHONPATH both branches of _prepare_environment build
child_pythonpath(environ) ==
  IF environ["PYTHONPATH"] # Unset
  THEN project_root \o ":" \o environ["PYTHONPATH"]
  ELSE project_root

\* _prepare_environment that copies os.environ whatever clean_env is
_prepare_environment_copy(clean_env, environ) ==
  [environ EXCEPT !["PYTHONPATH"] = child_pythonpath(environ)]

_prepare_environment(clean_env, environ) ==
  IF ~clean_env
  THEN [environ EXCEPT !["PYTHONPATH"] = child_pythonpath(environ)]
  ELSE [n \in EnvNames |->
          CASE n = "PATH" ->
                 IF environ[n] # Unset THEN environ[n] ELSE "/usr/bin:/bin"
            [] n = "HOME" ->
                 IF environ[n] # Unset THEN environ[n] ELSE "/tmp"
            [] n = "PYTHONPATH" -> child_pythonpath(environ)
            [] n \in {"LANG", "LC_ALL", "LC_CTYPE"} -> environ[n]
            [] OTHER -> Unset]

Adapters == {"SubprocessAdapter", "JSONProtocolAdapter"}

\* the keyword options the harness and the runner pass to compute_swhid
CallOptions == {{}, {"commit", "tag"}, {"commit", "tag", "version"}}

\* the request the adapter serialises, as the set of its keys
adapter_request(adapter) ==
  [op |-> "compute",
   keys |-> IF adapter = "SubprocessAdapter"
            THEN {"op", "payload_path", "obj_type", "impl_module", "impl_class"}
            ELSE {"op", "payload_path", "obj_type"}]

\* what a child wrote on its standard output
NoOutput == [shape |-> "none", ok |-> FALSE, swhid |-> NoSwhid,
             code |-> "", message |-> ""]
Malformed == [shape |-> "malformed", ok |-> FALSE, swhid |-> NoSwhid,
              code |-> "", message |-> ""]
Response(ok, swhid, code, message) ==
  [shape |-> "json", ok |-> ok, swhid |-> swhid, code |-> code,
   message |-> message]

\* json.dumps of an ok:false response, and the other texts of a child's output
dumps(stdout) ==
  IF stdout.shape = "json" /\ ~stdout.ok
  THEN "{\"ok\": false, \"error\": {\"message\": \"" \o stdout.message
       \o "\", \"code\": \"" \o stdout.code \o "\"}}"
  ELSE IF stdout.shape = "json" THEN "{\"ok\": true}"
  ELSE IF stdout.shape = "malformed" THEN "garbage"
  ELSE ""

\* one way a child can behave: which limit it exceeds ("none", "wall_clock",
\* "cpu", "memory"), how it exits when it does exit, what memory_info reports
\* after communicate, whether SIGTERM ends it, whether it started a helper
\* process of its own (an external binary run by the implementation)
ChildBehaviour(kind, exceeds, returncode, stdout, stderr, rss_over, honours_sigterm, spawns_helper) ==
  [kind |-> kind, exceeds |-> exceeds, returncode |-> returncode,
   stdout |-> stdout, stderr |-> stderr, rss_over |-> rss_over,
   honours_sigterm |-> honours_sigterm, spawns_helper |-> spawns_helper]

\* signal number of SIGXCPU, the signal RLIMIT_CPU delivers
SIGXCPU == 24

\* the paths of run_impl.main and the ways a child can end otherwise
ChildBehaviours ==
  {ChildBehaviour("success", "none", 0, Response(TRUE, 1, "", ""), "",
                  FALSE, TRUE, FALSE),
   ChildBehaviour("success_large", "memory", 0, Response(TRUE, 1, "", ""), "",
                  TRUE, TRUE, FALSE),
   ChildBehaviour("no_swhid", "none", 0, Response(TRUE, NoSwhid, "", ""), "",
                  FALSE, TRUE, FALSE),
   ChildBehaviour("handler_exception", "none", 1,
                  Response(FALSE, NoSwhid, "COMPUTE_ERROR", "Test error"), "",
                  FALSE, TRUE, FALSE),
   ChildBehaviour("load_failure", "none", 1,
                  Response(FALSE, NoSwhid, "LOAD_ERROR",
                           "Failed to load implementation"), "",
                  FALSE, TRUE, FALSE),
   ChildBehaviour("error_reply", "none", 0,
                  Response(FALSE, NoSwhid, "VALIDATION_ERROR", "Test error"), "",
                  FALSE, TRUE, FALSE),
   ChildBehaviour("malformed", "none", 0, Malformed, "", FALSE, TRUE, FALSE),
   ChildBehaviour("crash", "none", 1, NoOutput, "", FALSE, TRUE, FALSE),
   ChildBehaviour("cpu_limit", "cpu", -SIGXCPU, NoOutput, "", FALSE, TRUE, FALSE),
   ChildBehaviour("memory_limit", "memory", 1, NoOutput, "MemoryError",
                  FALSE, TRUE, FALSE)}
  \cup {ChildBehaviour("sleeps", "wall_clock", 0, NoOutput, "", FALSE, h, s) :
          h \in BOOLEAN, s \in BOOLEAN}

\* what compute_swhid hands to its caller: the identifier, or the text of the
\* exception it raised together with the kind _classify_error gives that text
AdapterResult(success, swhid, error) ==
  [success |-> success, swhid |-> swhid, error |-> error,
   code |-> IF success THEN "SUCCESS" ELSE _classify_error(error)[1]]

\* `stderr.strip() or stdout.strip() or "Unknown error"`
exit_error_msg(b) ==
  IF b.stderr # "" THEN b.stderr
  ELSE IF dumps(b.stdout) # "" THEN dumps(b.stdout)
  ELSE "Unknown error"

\* the text raised for a non-zero returncode
exit_error_text(adapter, b) ==
  (IF adapter = "SubprocessAdapter" THEN "Implementation" ELSE "Process")
  \o " failed (exit " \o ToString(b.returncode) \o "): " \o exit_error_msg(b)

\* the statements of compute_swhid after communicate returned in time
after_communicate(adapter, b) ==
  IF b.rss_over THEN AdapterResult(FALSE, NoSwhid, ErrRssLimit)
  ELSE IF b.returncode # 0
  THEN AdapterResult(FALSE, NoSwhid, exit_error_text(adapter, b))
  ELSE IF b.stdout.shape # "json" THEN AdapterResult(FALSE, NoSwhid, ErrInvalidJson)
  ELSE IF ~b.stdout.ok
  THEN AdapterResult(FALSE, NoSwhid, ErrImplError(b.stdout.code, b.stdout.message))
  ELSE IF b.stdout.swhid = NoSwhid
  THEN AdapterResult(FALSE, NoSwhid, ErrNoSwhidInResponse)
  ELSE AdapterResult(TRUE, b.stdout.swhid, NoError)

\* one call of compute_swhid on an adapter
Invocation(adapter, clean_env, options, environ, behaviour) ==
  [adapter |-> adapter, clean_env |-> clean_env, options |-> options,
   environ |-> environ, behaviour |-> behaviour]

(***************************************************************************)
(* harness/harness.py: _discover_git_tests, the listing of refs            *)
(***************************************************************************)
\* the ref names a repository can hold
LocalBranchNames == {"main", "feature/x", "feature_x"}
RemoteRefs == {<<"origin", "main">>, <<"origin", "topic">>, <<"upstream", "dev">>}
TagNames == {"rel/1", "rel_1", "v1.0", "v1.0-light"}
\* the tags made with `git tag -a`; the others are lightweight
AnnotatedTagNames == {"rel/1", "rel_1", "v1.0"}

\* what `git branch -a` prints for a detached HEAD and for origin's HEAD
DetachedHeadLine == "(HEAD detached at 1a2b3c4)"
OriginHeadEntry == "HEAD -> origin/main"

\* every string the listing can yield, in the order of Python's str comparison
RefOrder ==
  <<DetachedHeadLine, OriginHeadEntry, "feature/x", "feature_x", "main",
    "rel/1", "rel_1", "topic", "upstream/dev", "v1.0", "v1.0-light">>

\* a repository: its local branches, whether HEAD is detached, its
\* remote-tracking refs, whether refs/remotes/origin/HEAD exists, its tags
Repository(local, detached, remotes, origin_head, tags) ==
  [local |-> local, detached |-> detached, remotes |-> remotes,
   origin_head |-> origin_head, tags |-> tags]

\* one line of `git branch -a`: a local branch, the detached-HEAD line, a
\* remote-tracking ref, or the symbolic ref of origin's HEAD
BranchLine(kind, remote, name) == [kind |-> kind, remote |-> remote, name |-> name]

\* the lines `git branch -a` prints for a repository, as a set
git_branch_a(repo) ==
  {BranchLine("local", "", b) : b \in repo.local}
  \cup (IF repo.detached THEN {BranchLine("detached", "", DetachedHeadLine)} ELSE {})
  \cup {BranchLine("remote", r[1], r[2]) : r \in repo.remotes}
  \cup (IF repo.origin_head THEN {BranchLine("origin_head", "origin", OriginHeadEntry)}
        ELSE {})

\* line.strip().lstrip('*').strip(), then for a line that starts with
\* 'remotes/': .replace('remotes/origin/', '').replace('remotes/', '')
branch_of_line(line) ==
  IF line.kind \in {"remote", "origin_head"}
  THEN IF line.remote = "origin" THEN line.name
       ELSE line.remote \o "/" \o line.name
  ELSE line.name

\* `branch and branch != 'HEAD' and not branch.startswith('remotes/')`
keeps_branch(branch) == branch # "" /\ branch # "HEAD"

\* sorted(set(...)) of strings of RefOrder
sorted_set(S) == SelectSeq(RefOrder, LAMBDA r : r \in S)

\* the branches the listing yields
discovered_branches(repo) ==
  sorted_set({b \in {branch_of_line(l) : l \in git_branch_a(repo)} : keeps_branch(b)})

\* `git tag -l`, kept when `git cat-file -t` answers "tag", then sorted
discovered_tags(repo) ==
  sorted_set({t \in repo.tags : t \in AnnotatedTagNames})

\* one derived test: its name, the category and the ref handed to
\* _run_single_test
DerivedTest(test_name, category, ref) ==
  [test_name |-> test_name, category |-> category, ref |-> ref]

\* the derived tests of one call, branches first
derived_tests(base_name, branches, tags) ==
  [i \in 1..Len(branches) |->
     DerivedTest(branch_test_name(base_name, branches[i]), "revision", branches[i])]
  \o [i \in 1..Len(tags) |->
        DerivedTest(tag_test_name(base_name, tags[i]), "release", tags[i])]

\* what one call of _discover_git_tests listed and tested
Discovery(branches, tags, tests) ==
  [branches |-> branches, tags |-> tags, tests |-> tests]

discover_git_tests(base_name, repo, ask_branches, ask_tags) ==
  LET branches == IF ask_branches THEN discovered_branches(repo) ELSE <<>>
      tags == IF ask_tags THEN discovered_tags(repo) ELSE <<>>
  IN Discovery(branches, tags, derived_tests(base_name, branches, tags))

(***************************************************************************)
(* harness/utils/git_utils.py: resolve_commit_reference, and the part of   *)
(* _run_single_test / run_single_test that hands the reference on          *)
(***************************************************************************)
\* commit is None
NoCommit == "<no commit>"
\* a full SHA: the one string of CommitRefs with len(commit) == 40
FullSha == "1a2b3c4d5e6f708192a3b4c5d6e7f8091a2b3c4d"
CommitRefs == {NoCommit, "HEAD", "main", "1a2b3c4", FullSha}

\* how `git rev-parse` ends for one call: it prints the SHA, exits non-zero
\* (CalledProcessError), exceeds timeout=5 (TimeoutExpired), or cannot be
\* started at all (OSError: no git executable, cwd is not a directory)
GitOutcomes == {"resolved", "called_process_error", "timeout", "os_error"}

\* the text of the OSError of subprocess.run
ErrGitNotFound == "[Errno 2] No such file or directory: 'git'"

Resolution(raised, value) == [raised |-> raised, value |-> value]

resolve_commit_reference(commit, git) ==
  IF commit = NoCommit \/ commit = "HEAD" \/ commit = FullSha
  THEN Resolution(FALSE, commit)
  ELSE IF git = "resolved" THEN Resolution(FALSE, FullSha)
  ELSE IF git \in {"called_process_error", "timeout"} THEN Resolution(FALSE, commit)
  ELSE Resolution(TRUE, commit)

\* `if commit and obj_type == "revision": resolved_commit = resolve(...)`
resolved_commit(obj_type, commit, git) ==
  IF commit # NoCommit /\ obj_type = "revision"
  THEN resolve_commit_reference(commit, git)
  ELSE Resolution(FALSE, commit)

\* what one candidate's test did with the reference: whether compute_swhid
\* was called, the commit keyword it got, and the outcome
Handed(invoked, reference, result) ==
  [invoked |-> invoked, reference |-> reference, result |-> result]

\* _run_single_test for category revision or release, from the capability
\* check on
reference_test(impl_name, impl, obj_type, commit, git) ==
  IF _obj_type_to_swhid_code(obj_type) \notin impl.supported_types
  THEN Handed(FALSE, NoCommit, failed_test(impl_name, ErrUnsupportedType))
  ELSE LET r == resolved_commit(obj_type, commit, git) IN
       IF r.raised
       THEN Handed(FALSE, NoCommit, failed_test(impl_name, ErrGitNotFound))
       ELSE IF impl.raises # NoError
       THEN Handed(TRUE, r.value, failed_test(impl_name, impl.raises))
       ELSE Handed(TRUE, r.value, TestResult(impl_name, TRUE, impl.swhid, NoError))

\* one payload with a commit reference and how git behaves for each candidate
ReferenceCall(obj_type, commit, impls, git) ==
  [obj_type |-> obj_type, commit |-> commit, impls |-> impls, git |-> git]

(***************************************************************************)
(* harness/harness.py: _create_minimal_git_repo (git_manager.py:           *)
(* create_minimal_git_repo is the same construction)                       *)
(***************************************************************************)
\* the Unix time of the first commit
test_tick == 1112911993
\* the step between the commits and the tag
tick_step == 60

\* the part of a host that the construction can see: the wall clock and the
\* variables of os.environ that git reads for dates and identities
Host(clock, tz, author_date, author_name, committer_name) ==
  [clock |-> clock, TZ |-> tz, GIT_AUTHOR_DATE |-> author_date,
   GIT_COMMITTER_DATE |-> author_date, GIT_AUTHOR_NAME |-> author_name,
   GIT_COMMITTER_NAME |-> committer_name]

Hosts ==
  {Host(clock, tz, date, an, cn) :
     clock \in {1700000000, 1800000000}, tz \in {Unset, "Europe/Paris"},
     date \in {Unset, "2020-01-01"}, an \in {Unset, "Alice"},
     cn \in {Unset, "Alice"}}

\* env = os.environ.copy(); env["TZ"] = "UTC"; env["GIT_AUTHOR_DATE"] =
\* env["GIT_COMMITTER_DATE"] = f"{test_tick} +0000"
git_env(host, tick) ==
  [host EXCEPT !.TZ = "UTC", !.GIT_AUTHOR_DATE = tick, !.GIT_COMMITTER_DATE = tick]

\* the identity git writes: the environment variable when set, else the
\* user.name the construction configured
identity(env_name) == IF env_name # Unset THEN env_name ELSE "Test User"

\* a commit or tag object, standing for its identifier: everything git hashes
GitObject(kind, content, parent, env, message) ==
  [kind |-> kind, content |-> content, parent |-> parent,
   author |-> identity(env.GIT_AUTHOR_NAME), author_date |-> env.GIT_AUTHOR_DATE,
   committer |-> identity(env.GIT_COMMITTER_NAME),
   committer_date |-> env.GIT_COMMITTER_DATE, message |-> message]

\* the identifiers of the commit of main, of the branch feature and of the
\* annotated tag v1.0
create_minimal_git_repo(host) ==
  LET initial == GitObject("commit", "README.md", "none",
                           git_env(host, test_tick), "Initial commit")
      feature == GitObject("commit", "FEATURE.txt", "Initial commit",
                           git_env(host, test_tick + tick_step), "Add feature")
      tag == GitObject("tag", "v1.0", "Add feature",
                       git_env(host, test_tick + 2 * tick_step), "Release v1.0")
  IN [main |-> feature, feature |-> feature, initial |-> initial, tag |-> tag]

(***************************************************************************)
(* State.                                                                  *)
(***************************************************************************)
VARIABLES
  results,                \* the outcome map, values in insertion order
  expected_swhid,         \* expected primary identifier or NoSwhid
  expected_swhid_sha256,  \* expected secondary identifier or NoSwhid
  expected_error,         \* expected error code or NoExpectedError
  comparison,             \* <<>> or <<what compare_results returned>>
  hcomparison,            \* <<>> or <<what _compare_results returned>>
  implementations,        \* self.implementations: the loaded candidates
  config,                 \* self.config["payloads"], flattened in file order
  payloads_arg,           \* the `payloads` argument of run_tests
  pc,                     \* where the command is
  todo,                   \* the payloads the loops of run_tests still visit
  all_results,            \* all_results of run_tests
  emitted,                \* canonical_results.tests handed to the output
  exit_status,            \* <<>> while running, <<status>> once the process ended
  last_step,              \* what the last visit of a payload did
  call,                   \* <<>> or <<the call of run_single_test at hand, whom it is for>>
  outcome,                \* <<>> or <<what that call returned and did, whom it names>>
  invocation,             \* <<>> or <<the adapter call at hand>>
  apc,                    \* where that call of compute_swhid is
  child,                  \* the child process: "none", "running", "exited"
  helper,                 \* a process the child started: same values
  sent,                   \* the requests written to the child's input
  received,               \* the responses read from the child's output
  child_env,              \* <<>> or <<the env argument of Popen>>
  signals,                \* the signals the adapter sent to the child
  adapter_result,         \* <<>> or <<what the call handed to its caller>>
  _temp_dirs,             \* self._temp_dirs: the registry
  on_disk,                \* the temporary directories that exist
  unremovable,            \* those of them whose rmtree raises
  extract_failed,         \* those whose extraction raised
  attempts,               \* the directories cleanup called rmtree on, in order
  releases,               \* the directories cleanup removed, in order
  wpc,                    \* where each worker is in _extract_tarball_if_needed
  wdir,                   \* the directory each worker holds
  made,                   \* how many directories mkdtemp has handed out
  tpc,                    \* the process: "idle", "running", "exited"
  repo,                   \* <<>> or <<the repository discovery runs on>>
  discover_flags,         \* <<discover_branches, discover_tags>> of the payload
  discovery,              \* <<>> or <<what _discover_git_tests listed and tested>>
  ref_call,               \* <<>> or <<the payload with a commit reference at hand>>
  handed,                 \* <<>> or <<what each candidate's test was handed and gave>>
  hosts,                  \* <<>> or the two hosts the synthetic repository is built on
  built                   \* <<>> or the identifiers built on each of them

cmpvars == <<results, expected_swhid, expected_swhid_sha256, expected_error,
             comparison, hcomparison>>

runvars == <<implementations, config, payloads_arg, pc, todo, all_results,
             emitted, exit_status, last_step>>

unitvars == <<call, outcome>>

adaptervars == <<invocation, apc, child, helper, sent, received, child_env,
                 signals, adapter_result>>

tempvars == <<_temp_dirs, on_disk, unremovable, extract_failed, attempts,
              releases, wpc, wdir, made, tpc>>

discvars == <<repo, discover_flags, discovery>>

resolvevars == <<ref_call, handed>>

synthvars == <<hosts, built>>

auxvars == <<unitvars, adaptervars, tempvars, discvars, resolvevars, synthvars>>

vars == <<cmpvars, runvars, auxvars>>

\* the outcomes run_single_test / _run_single_test construct
SuccessOutcomes ==
  {SwhidTestResult(TRUE, s, NoError, v) : s \in Ids \cup {NoSwhid}, v \in Versions}

FailureOutcomes ==
  {SwhidTestResult(FALSE, NoSwhid, e, v) : e \in ErrorTexts, v \in Versions}

Outcomes == SuccessOutcomes \cup FailureOutcomes

NoStep ==
  [category |-> "none", name |-> "none", path |-> "none", did |-> "none",
   computes |-> 0]

\* one visit of the payload loop: the payload, what its path was on disk
\* ("missing", "present", "corrupt_tarball"), what the visit did and how many
\* times compute_swhid was reached
Step(payload, path, did, computes) ==
  [category |-> payload.category, name |-> payload.name, path |-> path,
   did |-> did, computes |-> computes]

\* no comparator call is pending and no command is running
CmpIdle ==
  /\ results = <<>>
  /\ expected_swhid = NoSwhid
  /\ expected_swhid_sha256 = NoSwhid
  /\ expected_error = NoExpectedError
  /\ comparison = <<>>
  /\ hcomparison = <<>>

\* no single test is being looked at
UnitIdle ==
  /\ call = <<>>
  /\ outcome = <<>>

\* no adapter call is being looked at
AdapterIdle ==
  /\ invocation = <<>>
  /\ apc = "idle"
  /\ child = "none"
  /\ helper = "none"
  /\ sent = <<>>
  /\ received = <<>>
  /\ child_env = <<>>
  /\ signals = <<>>
  /\ adapter_result = <<>>

\* no process with worker threads is being looked at
TempIdle ==
  /\ _temp_dirs = <<>>
  /\ on_disk = {}
  /\ unremovable = {}
  /\ extract_failed = {}
  /\ attempts = <<>>
  /\ releases = <<>>
  /\ wpc = <<>>
  /\ wdir = <<>>
  /\ made = 0
  /\ tpc = "idle"

\* no discovery is being looked at
DiscoverIdle ==
  /\ repo = <<>>
  /\ discover_flags = <<FALSE, FALSE>>
  /\ discovery = <<>>

\* no payload with a commit reference is being looked at
ResolveIdle ==
  /\ ref_call = <<>>
  /\ handed = <<>>

\* no synthetic repository is being looked at
SynthIdle ==
  /\ hosts = <<>>
  /\ built = <<>>

AuxIdle ==
  UnitIdle /\ AdapterIdle /\ TempIdle /\ DiscoverIdle /\ ResolveIdle /\ SynthIdle

RunIdle ==
  /\ implementations = <<>>
  /\ config = <<>>
  /\ payloads_arg = NoFilter
  /\ pc = "idle"
  /\ todo = <<>>
  /\ all_results = <<>>
  /\ emitted = <<>>
  /\ exit_status = <<>>
  /\ last_step = NoStep

(***************************************************************************)
(* SpecCmp: the comparators as functions of their arguments.               *)
(***************************************************************************)
InitCmp ==
  /\ results \in SeqsUpTo(Outcomes, MaxOutcomes)
  /\ expected_swhid \in Ids \cup {NoSwhid}
  /\ expected_swhid_sha256 \in Ids \cup {NoSwhid}
  /\ expected_error \in {NoExpectedError, "VALIDATION_ERROR"}
  /\ comparison = <<>>
  /\ hcomparison = <<>>
  /\ RunIdle
  /\ AuxIdle

CompareResults ==
  /\ comparison = <<>>
  /\ comparison' = <<compare_results(results, expected_swhid,
                                     expected_swhid_sha256, expected_error)>>
  /\ UNCHANGED <<results, expected_swhid, expected_swhid_sha256, expected_error,
                 hcomparison, runvars, auxvars>>

HarnessCompareResults ==
  /\ hcomparison = <<>>
  /\ hcomparison' = <<harness_compare_results(results, expected_swhid, expected_error)>>
  /\ UNCHANGED <<results, expected_swhid, expected_swhid_sha256, expected_error,
                 comparison, runvars, auxvars>>

NextCmp == CompareResults \/ HarnessCompareResults

SpecCmp == InitCmp /\ [][NextCmp]_vars

(***************************************************************************)
(* SpecUnit: TestRunner.run_single_test as a function of what it is given. *)
(***************************************************************************)
UnitCategories ==
  {NoCategory, "content", "content/text", "directory", "directory/nested",
   "git", "git-repository", "revision", "release", "archive"}

DetectedTypes == {"content", "directory", "snapshot"}

InitUnit ==
  /\ CmpIdle
  /\ RunIdle
  /\ call \in {<<SingleTestCall(category, detected, supported_types, raises,
                                extract_raises, version, prefix), id>> :
                 id \in TestIdentities,
                 category \in UnitCategories, detected \in DetectedTypes,
                 supported_types \in {AllTypeCodes, {"cnt"}},
                 raises \in {NoError, ErrCompute, ErrRawNotSupported},
                 extract_raises \in BOOLEAN,
                 version \in {NoVersion} \cup Versions, prefix \in Versions}
  /\ outcome = <<>>
  /\ AdapterIdle
  /\ TempIdle
  /\ DiscoverIdle
  /\ ResolveIdle
  /\ SynthIdle

RunSingleTest ==
  /\ call # <<>> /\ outcome = <<>>
  /\ outcome' = <<runner_run_single_test(call[1]), result_identity(call[2])>>
  /\ UNCHANGED <<cmpvars, runvars, call, adaptervars, tempvars, discvars,
                 resolvevars, synthvars>>

NextUnit == RunSingleTest

SpecUnit == InitUnit /\ [][NextUnit]_vars

(***************************************************************************)
(* SpecAdapter: one call of compute_swhid on SubprocessAdapter or          *)
(* JSONProtocolAdapter, step by step, against one child.                   *)
(***************************************************************************)
\* environments and behaviours are paired from their catalogues so that each
\* branch of the adapter is reached without multiplying the two
Invocations ==
  {Invocation(a, c, o, e, b) :
     a \in Adapters, c \in BOOLEAN, o \in {{}},
     e \in OrchestratorEnvironments,
     b \in {x \in ChildBehaviours : x.kind \in {"success", "sleeps"}}}
  \cup
  {Invocation(a, TRUE, o, Environment(Unset, Unset, Unset, Unset, Unset, Unset, Unset), b) :
     a \in Adapters, o \in CallOptions, b \in ChildBehaviours}

InitAdapter ==
  /\ CmpIdle
  /\ RunIdle
  /\ UnitIdle
  /\ TempIdle
  /\ DiscoverIdle
  /\ ResolveIdle
  /\ SynthIdle
  /\ invocation \in {<<i>> : i \in Invocations}
  /\ apc = "called"
  /\ child = "none"
  /\ helper = "none"
  /\ sent = <<>>
  /\ received = <<>>
  /\ child_env = <<>>
  /\ signals = <<>>
  /\ adapter_result = <<>>

\* the call itself: keywords the method does not declare raise TypeError
\* before its body runs; otherwise the body runs up to and including Popen
ComputeSwhid ==
  /\ invocation # <<>> /\ apc = "called"
  /\ LET i == invocation[1] IN
       IF i.options # {}
       THEN /\ adapter_result' = <<AdapterResult(FALSE, NoSwhid, ErrUnexpectedKeyword)>>
            /\ apc' = "returned"
            /\ UNCHANGED <<child, helper, child_env>>
       ELSE /\ child_env' = <<_prepare_environment(i.clean_env, i.environ)>>
            /\ child' = "running"
            /\ helper' = IF i.behaviour.spawns_helper THEN "running" ELSE "none"
            /\ apc' = "communicate"
            /\ UNCHANGED adapter_result
  /\ UNCHANGED <<cmpvars, runvars, unitvars, tempvars, discvars, resolvevars, synthvars, invocation, sent, received, signals>>

\* process.communicate(input=request_json, timeout=self.timeout) and, when it
\* returns in time, the rest of the method
Communicate ==
  /\ apc = "communicate"
  /\ LET i == invocation[1]
         b == i.behaviour
     IN /\ sent' = Append(sent, adapter_request(i.adapter))
        /\ IF b.exceeds = "wall_clock"
           THEN /\ apc' = "terminate"
                /\ UNCHANGED <<child, helper, received, adapter_result>>
           ELSE /\ child' = "exited"
                /\ helper' = IF helper = "running" THEN "exited" ELSE helper
                /\ received' = IF b.stdout.shape = "none" THEN received
                               ELSE Append(received, b.stdout)
                /\ adapter_result' = <<after_communicate(i.adapter, b)>>
                /\ apc' = "returned"
  /\ UNCHANGED <<cmpvars, runvars, unitvars, tempvars, discvars, resolvevars, synthvars, invocation, child_env, signals>>

\* except subprocess.TimeoutExpired: proc_monitor.terminate()
Terminate ==
  /\ apc = "terminate"
  /\ signals' = Append(signals, "SIGTERM")
  /\ apc' = "wait"
  /\ UNCHANGED <<cmpvars, runvars, unitvars, tempvars, discvars, resolvevars, synthvars, invocation, child, helper, sent,
                 received, child_env, adapter_result>>

\* proc_monitor.wait(timeout=5): the child exits within the grace period and
\* the method raises, or psutil.TimeoutExpired is raised
WaitGrace ==
  /\ apc = "wait"
  /\ IF invocation[1].behaviour.honours_sigterm
     THEN /\ child' = "exited"
          /\ adapter_result' = <<AdapterResult(FALSE, NoSwhid, ErrTimedOut)>>
          /\ apc' = "returned"
     ELSE /\ apc' = "kill"
          /\ UNCHANGED <<child, adapter_result>>
  /\ UNCHANGED <<cmpvars, runvars, unitvars, tempvars, discvars, resolvevars, synthvars, invocation, helper, sent, received,
                 child_env, signals>>

\* except psutil.TimeoutExpired: proc_monitor.kill(), then the raise
Kill ==
  /\ apc = "kill"
  /\ signals' = Append(signals, "SIGKILL")
  /\ child' = "exited"
  /\ adapter_result' = <<AdapterResult(FALSE, NoSwhid, ErrTimedOut)>>
  /\ apc' = "returned"
  /\ UNCHANGED <<cmpvars, runvars, unitvars, tempvars, discvars, resolvevars, synthvars, invocation, helper, sent, received,
                 child_env>>

NextAdapter ==
  \/ ComputeSwhid
  \/ Communicate
  \/ Terminate
  \/ WaitGrace
  \/ Kill

SpecAdapter == InitAdapter /\ [][NextAdapter]_vars

(***************************************************************************)
(* SpecTemp: the worker threads of one process extracting archives through *)
(* SwhidHarness._extract_tarball_if_needed, and _cleanup_temp_dirs, the    *)
(* handler registered with atexit.                                         *)
(***************************************************************************)
Workers == 1..NumWorkers
\* the directories mkdtemp can hand out, in the order it does
Dirs == 1..MaxDirs
NoDir == 0

\* how tarfile.open / extractall end: the archive is extracted, is extracted
\* and holds a directory without write permission (rmtree of it raises), or
\* cannot be read and the call raises
ExtractOutcomes == {"extracted", "extracted_readonly", "raises"}

\* the directories the loop of _cleanup_temp_dirs would remove if it ended at
\* the first rmtree that raises
removed_by_cleanup_until_failure(registry, disk, failing) ==
  {registry[i] : i \in {j \in DOMAIN registry :
                          \A k \in 1..j : registry[k] \notin failing}}
  \cap disk

\* the directories the loop of _cleanup_temp_dirs removes: those recorded
\* that exist and whose rmtree does not raise
removed_by_cleanup(registry, disk, failing) ==
  {registry[i] : i \in DOMAIN registry} \cap (disk \ failing)

InitTemp ==
  /\ CmpIdle
  /\ RunIdle
  /\ UnitIdle
  /\ AdapterIdle
  /\ DiscoverIdle
  /\ ResolveIdle
  /\ SynthIdle
  /\ _temp_dirs = <<>>
  /\ on_disk = {}
  /\ unremovable = {}
  /\ extract_failed = {}
  /\ attempts = <<>>
  /\ releases = <<>>
  /\ wpc = [w \in Workers |-> "idle"]
  /\ wdir = [w \in Workers |-> NoDir]
  /\ made = 0
  /\ tpc = "running"

\* temp_dir = tempfile.mkdtemp(prefix="swhid_test_")
Mkdtemp(w) ==
  /\ tpc = "running" /\ wpc[w] = "idle" /\ made < MaxDirs
  /\ made' = made + 1
  /\ on_disk' = on_disk \cup {made + 1}
  /\ wdir' = [wdir EXCEPT ![w] = made + 1]
  /\ wpc' = [wpc EXCEPT ![w] = "made"]
  /\ UNCHANGED <<cmpvars, runvars, unitvars, adaptervars, discvars, resolvevars, synthvars, _temp_dirs,
                 unremovable, extract_failed, attempts, releases, tpc>>

\* self._temp_dirs.append(temp_dir)
Register(w) ==
  /\ tpc = "running" /\ wpc[w] = "made"
  /\ _temp_dirs' = Append(_temp_dirs, wdir[w])
  /\ wpc' = [wpc EXCEPT ![w] = "registered"]
  /\ UNCHANGED <<cmpvars, runvars, unitvars, adaptervars, discvars, resolvevars, synthvars, on_disk, unremovable,
                 extract_failed, attempts, releases, wdir, made, tpc>>

\* with tarfile.open(...) as tar: tar.extractall(temp_dir), and the return
Extract(w) ==
  /\ tpc = "running" /\ wpc[w] = "registered"
  /\ \E o \in ExtractOutcomes :
       /\ unremovable' = IF o = "extracted_readonly"
                         THEN unremovable \cup {wdir[w]} ELSE unremovable
       /\ extract_failed' = IF o = "raises"
                            THEN extract_failed \cup {wdir[w]} ELSE extract_failed
  /\ wpc' = [wpc EXCEPT ![w] = "idle"]
  /\ wdir' = [wdir EXCEPT ![w] = NoDir]
  /\ UNCHANGED <<cmpvars, runvars, unitvars, adaptervars, discvars, resolvevars, synthvars, _temp_dirs, on_disk,
                 attempts, releases, made, tpc>>

\* the process ends (every `with ThreadPoolExecutor` block has been left, so
\* no worker is running) and atexit calls _cleanup_temp_dirs
CleanupTempDirs ==
  /\ tpc = "running"
  /\ \A w \in Workers : wpc[w] = "idle"
  /\ LET removed == removed_by_cleanup(_temp_dirs, on_disk, unremovable) IN
       /\ attempts' = attempts \o SelectSeq(_temp_dirs, LAMBDA d : d \in on_disk)
       /\ releases' = releases \o SelectSeq(_temp_dirs, LAMBDA d : d \in removed)
       /\ on_disk' = on_disk \ removed
  /\ _temp_dirs' = <<>>
  /\ tpc' = "exited"
  /\ UNCHANGED <<cmpvars, runvars, unitvars, adaptervars, discvars, resolvevars, synthvars, unremovable,
                 extract_failed, wpc, wdir, made>>

NextTemp ==
  \/ \E w \in Workers : Mkdtemp(w)
  \/ \E w \in Workers : Register(w)
  \/ \E w \in Workers : Extract(w)
  \/ CleanupTempDirs

SpecTemp == InitTemp /\ [][NextTemp]_vars

(***************************************************************************)
(* SpecDiscover: _discover_git_tests as a function of the repository.      *)
(***************************************************************************)
Repositories ==
  {Repository(local, detached, remotes, origin_head, tags) :
     local \in SUBSET LocalBranchNames \ {{}}, detached \in BOOLEAN,
     remotes \in SUBSET RemoteRefs, origin_head \in BOOLEAN,
     tags \in SUBSET TagNames}

InitDiscover ==
  /\ CmpIdle
  /\ RunIdle
  /\ UnitIdle
  /\ AdapterIdle
  /\ TempIdle
  /\ ResolveIdle
  /\ SynthIdle
  /\ repo \in {<<r>> : r \in {x \in Repositories : x.origin_head => x.remotes # {}}}
  /\ discover_flags \in {<<b, t>> : b \in BOOLEAN, t \in BOOLEAN}
  /\ discovery = <<>>

DiscoverGitTests ==
  /\ repo # <<>> /\ discovery = <<>>
  /\ discovery' = <<discover_git_tests("alpha", repo[1], discover_flags[1],
                                    discover_flags[2])>>
  /\ UNCHANGED <<cmpvars, runvars, unitvars, adaptervars, tempvars, resolvevars, synthvars, repo,
                 discover_flags>>

NextDiscover == DiscoverGitTests

SpecDiscover == InitDiscover /\ [][NextDiscover]_vars

(***************************************************************************)
(* SpecResolve: the tests of one payload with a commit reference, one per  *)
(* loaded candidate, each resolving the reference for itself.              *)
(***************************************************************************)
\* the ways git can behave over the calls of one payload: whether git can be
\* started and whether the reference exists are facts of the host and of the
\* repository; whether a call exceeds its timeout is drawn for each call
git_behaviours(n) ==
  {[i \in 1..n |-> "os_error"]}
  \cup UNION {[1..n -> {answer, "timeout"}] :
                answer \in {"resolved", "called_process_error"}}

InitResolve ==
  /\ CmpIdle
  /\ RunIdle
  /\ UnitIdle
  /\ AdapterIdle
  /\ TempIdle
  /\ DiscoverIdle
  /\ SynthIdle
  /\ ref_call \in {<<ReferenceCall(obj_type, commit, impls, git)>> :
                     obj_type \in {"revision", "release"}, commit \in CommitRefs,
                     impls \in [1..2 -> Candidates], git \in git_behaviours(2)}
  /\ handed = <<>>

\* the pool of run_tests for this payload, every task run to its end
RunReferenceTests ==
  /\ ref_call # <<>> /\ handed = <<>>
  /\ LET c == ref_call[1] IN
       handed' = <<[i \in 1..Len(c.impls) |->
                      reference_test(i, c.impls[i], c.obj_type, c.commit, c.git[i])]>>
  /\ UNCHANGED <<cmpvars, runvars, unitvars, adaptervars, tempvars, discvars,
                 synthvars, ref_call>>

NextResolve == RunReferenceTests

SpecResolve == InitResolve /\ [][NextResolve]_vars

(***************************************************************************)
(* SpecSynth: the synthetic repository constructed on two hosts.           *)
(***************************************************************************)
InitSynth ==
  /\ CmpIdle
  /\ RunIdle
  /\ UnitIdle
  /\ AdapterIdle
  /\ TempIdle
  /\ DiscoverIdle
  /\ ResolveIdle
  /\ hosts \in {<<h1, h2>> : h1 \in Hosts, h2 \in Hosts}
  /\ built = <<>>

\* _create_minimal_git_repo run once on each host
CreateMinimalGitRepos ==
  /\ hosts # <<>> /\ built = <<>>
  /\ built' = <<create_minimal_git_repo(hosts[1]), create_minimal_git_repo(hosts[2])>>
  /\ UNCHANGED <<cmpvars, runvars, unitvars, adaptervars, tempvars, discvars,
                 resolvevars, hosts>>

NextSynth == CreateMinimalGitRepos

SpecSynth == InitSynth /\ [][NextSynth]_vars

(***************************************************************************)
(* Spec: main -> run_tests -> report -> exit.                              *)
(***************************************************************************)
Init ==
  /\ CmpIdle
  /\ AuxIdle
  /\ implementations \in SeqsUpTo(Candidates, NumImpls)
  /\ config \in SeqsUpTo(PayloadEntries, MaxPayloads)
  /\ payloads_arg \in {NoFilter, {"alpha"}}
  /\ pc = "start"
  /\ todo = <<>>
  /\ all_results = <<>>
  /\ emitted = <<>>
  /\ exit_status = <<>>
  /\ last_step = NoStep

\* the loops go on while payloads are left; after the last one run_tests
\* returns all_results to main
loop_pc(rest) == IF rest = <<>> THEN "returned" ELSE "loop"

\* run_tests up to its loops: load the implementations, order the payloads
RunTestsBegin ==
  /\ pc = "start"
  /\ IF implementations = <<>>
     THEN /\ pc' = "returned"
          /\ todo' = <<>>
     ELSE LET order == visit_order(sorted_categories(config_categories(config)),
                                   config, payloads_arg)
          IN /\ pc' = loop_pc(order)
             /\ todo' = order
  /\ UNCHANGED <<cmpvars, auxvars, implementations, config, payloads_arg, all_results,
                 emitted, exit_status, last_step>>

\* `continue` without a verdict
Dropped(payload, path) ==
  /\ todo' = Tail(todo)
  /\ pc' = loop_pc(Tail(todo))
  /\ last_step' = Step(payload, path, "dropped", 0)
  /\ UNCHANGED <<cmpvars, auxvars, implementations, config, payloads_arg, all_results,
                 emitted, exit_status>>

\* what `git branch -a` / `git tag -l` + `git cat-file -t` yield; the empty
\* list also stands for a git command that fails (the exception is logged)
ref_listings(asked, ref) == IF asked THEN SeqsUpTo({ref}, 1) ELSE {<<>>}

\* a completion order is drawn for each pool that is started
pool_orders(started, n) ==
  IF started THEN completion_orders(n) ELSE {[i \in 1..n |-> i]}

\* _discover_git_tests for a payload that asks for discovery
Discover(payload, path, extract_raises) ==
  IF extract_raises
  THEN \* the exception of _extract_tarball_if_needed leaves run_tests and main
       /\ pc' = "crashed"
       /\ exit_status' = <<1>>
       /\ last_step' = Step(payload, path, "raised", 0)
       /\ UNCHANGED <<cmpvars, auxvars, implementations, config, payloads_arg, todo,
                      all_results, emitted>>
  ELSE
    \E repo_exists \in BOOLEAN :
    \E branches \in ref_listings(repo_exists /\ payload.discover_branches, "main"),
       tags \in ref_listings(repo_exists /\ payload.discover_tags, "v1.0") :
    \E order_b \in pool_orders(branches # <<>>, Len(implementations)),
       order_t \in pool_orders(tags # <<>>, Len(implementations)) :
      LET branch_verdicts ==
            [i \in 1..Len(branches) |->
               test_payload(implementations, order_b, "revision", payload,
                            branch_test_name(payload.name, branches[i]),
                            NoSwhid, NoExpectedError, FALSE)]
          tag_verdicts ==
            [i \in 1..Len(tags) |->
               test_payload(implementations, order_t, "release", payload,
                            tag_test_name(payload.name, tags[i]),
                            NoSwhid, NoExpectedError, FALSE)]
          n_computes ==
            Cardinality({i \in 1..Len(implementations) :
                           calls_compute(implementations[i], "revision", FALSE)})
              * Len(branch_verdicts)
            + Cardinality({i \in 1..Len(implementations) :
                             calls_compute(implementations[i], "release", FALSE)})
              * Len(tag_verdicts)
      IN /\ all_results' = all_results \o branch_verdicts \o tag_verdicts
         /\ todo' = Tail(todo)
         /\ pc' = loop_pc(Tail(todo))
         /\ last_step' = Step(payload, path,
                              IF repo_exists THEN "discovered" ELSE "repo_missing",
                              n_computes)
         /\ UNCHANGED <<cmpvars, auxvars, implementations, config, payloads_arg,
                        emitted, exit_status>>

\* the thread pool over the implementations, then _compare_results
Dispatch(payload, path, extract_raises) ==
  \E order \in completion_orders(Len(implementations)) :
    /\ all_results' =
         Append(all_results,
                test_payload(implementations, order, payload.category, payload,
                             payload.name, payload.expected_swhid,
                             payload.expected_error, extract_raises))
    /\ todo' = Tail(todo)
    /\ pc' = loop_pc(Tail(todo))
    /\ last_step' =
         Step(payload, path, "tested",
              Cardinality({i \in 1..Len(implementations) :
                             calls_compute(implementations[i], payload.category,
                                           extract_raises)}))
    /\ UNCHANGED <<cmpvars, auxvars, implementations, config, payloads_arg,
                   emitted, exit_status>>

\* run_tests from "Testing payload" on: discovery or the plain test
Tested(payload, path, extract_raises) ==
  IF payload.discover_branches \/ payload.discover_tags
  THEN Discover(payload, path, extract_raises)
  ELSE Dispatch(payload, path, extract_raises)

\* category "git", name "synthetic_repo": the repository is always recreated
VisitSyntheticRepo ==
  /\ pc = "loop"
  /\ Head(todo).category = "git" /\ Head(todo).name = "synthetic_repo"
  /\ \E path \in {"missing", "present"}, create_ok \in BOOLEAN :
       IF create_ok
       THEN Tested(Head(todo), path, FALSE)
       ELSE Dropped(Head(todo), path)

\* category "git", any other name: a repository is created unless one is there
VisitGitPayload ==
  /\ pc = "loop"
  /\ Head(todo).category = "git" /\ Head(todo).name # "synthetic_repo"
  /\ \E path \in {"missing", "present"}, is_git_repo \in BOOLEAN, create_ok \in BOOLEAN :
       /\ is_git_repo => (path = "present" /\ ~create_ok)
       /\ IF is_git_repo \/ create_ok
          THEN Tested(Head(todo), path, FALSE)
          ELSE Dropped(Head(todo), path)

\* any other category, path not on disk: the SKIPPED verdict
VisitMissingPayload ==
  /\ pc = "loop"
  /\ Head(todo).category # "git"
  /\ all_results' =
       Append(all_results,
              skipped_verdict(implementations, Head(todo)))
  /\ todo' = Tail(todo)
  /\ pc' = loop_pc(Tail(todo))
  /\ last_step' = Step(Head(todo), "missing", "skipped", 0)
  /\ UNCHANGED <<cmpvars, auxvars, implementations, config, payloads_arg,
                 emitted, exit_status>>

\* any other category, path on disk
VisitPayload ==
  /\ pc = "loop"
  /\ Head(todo).category # "git"
  /\ \E path \in {"present", "corrupt_tarball"} :
       Tested(Head(todo), path, path = "corrupt_tarball")

\* main with --fail-fast when a verdict has all_match False: exit before the report
MainFailFast ==
  /\ pc = "returned"
  /\ \E i \in 1..Len(all_results) : ~all_results[i].all_match
  /\ pc' = "exited"
  /\ exit_status' = <<1>>
  /\ UNCHANGED <<cmpvars, auxvars, implementations, config, payloads_arg, todo,
                 all_results, emitted, last_step>>

\* main otherwise: the canonical results are written, then the exit status
MainReport ==
  /\ pc = "returned"
  /\ emitted' = get_canonical_results(all_results)
  /\ exit_status' =
       IF \E i \in 1..Len(all_results) : ~all_results[i].all_match
       THEN <<1>> ELSE <<0>>
  /\ pc' = "exited"
  /\ UNCHANGED <<cmpvars, auxvars, implementations, config, payloads_arg, todo,
                 all_results, last_step>>

Next ==
  \/ RunTestsBegin
  \/ VisitSyntheticRepo
  \/ VisitGitPayload
  \/ VisitMissingPayload
  \/ VisitPayload
  \/ MainFailFast
  \/ MainReport

Spec == Init /\ [][Next]_vars

(***************************************************************************)
(* Properties of the comparators (checked under SpecCmp).                  *)
(***************************************************************************)
\* an outcome built by the unsupported-type branches of the runner
UnsupportedOutcome(r) ==
  ~r.success /\ r.error \in {ErrUnsupportedType, ErrUnsupportedRaised}

AllOutcomes == Range(results)

\* C1: unsupported-unanimity law.  For every non-empty outcome map in which
\* every outcome is an unsupported-type outcome, both comparators return
\* all_match = TRUE, whatever the expected identifiers and expected error.
C1_UnsupportedUnanimity ==
  (results # <<>> /\ \A r \in AllOutcomes : UnsupportedOutcome(r))
    => /\ comparison # <<>> => comparison[1].all_match
       /\ hcomparison # <<>> => hcomparison[1].all_match

C1_Witness ==
  /\ Len(results) = 2
  /\ \A r \in AllOutcomes : UnsupportedOutcome(r)
  /\ expected_swhid # NoSwhid
  /\ expected_error = NoExpectedError
  /\ comparison # <<>> /\ comparison[1].all_match
  /\ hcomparison # <<>> /\ hcomparison[1].all_match

IdsOfVersion(v) ==
  {r.swhid : r \in {x \in AllOutcomes : x.success /\ x.swhid # NoSwhid /\ x.version = v}}

GroupAgrees(v, expected) ==
  /\ Cardinality(IdsOfVersion(v)) <= 1
  /\ (expected # NoSwhid /\ IdsOfVersion(v) # {}) => IdsOfVersion(v) = {expected}

EverySupportingSucceeded ==
  \A r \in AllOutcomes : r.success \/ UnsupportedOutcome(r)

LastVerdict == all_results[Len(all_results)]

\* the canonical form of a skip for a file that was not found
IsFileNotFoundSkip(c) ==
  c.status = "SKIPPED" /\ c.code = "IO_ERROR" /\ c.subtype = "file_not_found"

\* the last visit appended, for its payload, a verdict with all_match False in
\* which every loaded candidate has the file-not-found skip, and reached no
\* compute_swhid
VisitEndedInSkipVerdict ==
  /\ last_step.computes = 0
  /\ all_results # <<>>
  /\ LastVerdict.category = last_step.category
  /\ LastVerdict.payload_name = last_step.name
  /\ ~LastVerdict.all_match
  /\ Len(LastVerdict.results) = Len(implementations)
  /\ \A i \in 1..Len(LastVerdict.results) :
       /\ LastVerdict.results[i].error = ErrPayloadNotFound
       /\ IsFileNotFoundSkip(test_case(LastVerdict).results[i])

MaterializationFailed ==
  \/ last_step.did \in {"dropped", "repo_missing", "raised"}
  \/ last_step.path = "corrupt_tarball"

\* C7 as stated: when the materialization of a visited payload fails, the
\* payload still has a verdict, with a skip outcome for every loaded candidate.
C7_FailedMaterializationSkipped ==
  MaterializationFailed =>
    /\ all_results # <<>>
    /\ LastVerdict.category = last_step.category
    /\ LastVerdict.origin = last_step.name
    /\ Len(LastVerdict.results) = Len(implementations)
    /\ \A i \in 1..Len(LastVerdict.results) :
         test_case(LastVerdict).results[i].status = "SKIPPED"

\* C8 as stated: no visit ends the run before the payloads after it are
\* visited, and once the command has exited every verdict run_tests collected
\* has been emitted.
C8_RunNeverAborts ==
  /\ pc # "crashed"
  /\ pc = "exited" => emitted = get_canonical_results(all_results)

\* C9 as stated: once the process has ended, its exit status is 1 if an emitted
\* verdict has all_match False and 0 otherwise.
C9_ExitStatus ==
  exit_status # <<>> =>
    exit_status = <<IF \E i \in 1..Len(emitted) : ~all_results[i].all_match
                    THEN 1 ELSE 0>>

\* Python's order on (category, name) pairs
KeyLeq(category_a, name_a, category_b, name_b) ==
  \/ StrLess(category_a, category_b)
  \/ category_a = category_b /\ ~StrLess(name_b, name_a)

\* C10 as stated: the verdicts run_tests has collected are in lexicographic
\* order of category and then of the verdict's payload name.
C10_OrderedByVerdictName ==
  \A i, j \in 1..Len(all_results) :
    i < j => KeyLeq(all_results[i].category, all_results[i].payload_name,
                    all_results[j].category, all_results[j].payload_name)

\* C10 amended: the verdicts run_tests has collected are in lexicographic order
\* of category and then of the name of the configured payload they were
\* obtained from, whatever the order of the configuration and the order in
\* which the candidates complete.
C10_OrderedByPayload ==
  \A i, j \in 1..Len(all_results) :
    i < j => KeyLeq(all_results[i].category, all_results[i].origin,
                    all_results[j].category, all_results[j].origin)

\* run_tests returned two verdicts from a configuration of two payloads written
\* in the opposite order, with two candidates loaded
C10_Witness ==
  /\ pc = "returned"
  /\ Len(implementations) = 2
  /\ Len(config) = 2 /\ Len(all_results) = 2
  /\ config[1] # config[2]
  /\ all_results[1].category = config[2].category
  /\ all_results[1].origin = config[2].name
  /\ all_results[2].category = config[1].category
  /\ all_results[2].origin = config[1].name

\* the configuration entry a verdict was obtained from
EntryOf(v) ==
  CHOOSE e \in PayloadEntries : e.category = v.category /\ e.name = v.origin

\* the expected error _compare_results was given for a verdict: the entry's for
\* the payload itself, none for a discovered ref
ExpectedErrorOf(v) ==
  IF v.payload_name = v.origin THEN EntryOf(v).expected_error ELSE NoExpectedError

\* the verdict is the hard-coded one of a payload whose path is missing
IsMissingPathVerdict(v) ==
  v.results # <<>> /\ \A i \in 1..Len(v.results) : v.results[i].error = ErrPayloadNotFound

\* C11: the all_match of every verdict obtained from a pool of workers is the
\* one the outcomes give when they are inserted in submission order, whatever
\* the order in which the workers completed; the verdicts follow the visiting
\* order of the payloads.
C11_VerdictIndependentOfCompletionOrder ==
  /\ \A i \in 1..Len(all_results) :
       ~IsMissingPathVerdict(all_results[i]) =>
         all_results[i].all_match =
           harness_compare_results(all_results[i].results,
                                   all_results[i].expected_swhid,
                                   ExpectedErrorOf(all_results[i])).all_match
  /\ C10_OrderedByPayload

\* two different candidates ran a content payload in one pool and the run
\* returned its verdict
C11_Witness ==
  /\ pc = "returned"
  /\ Len(implementations) = 2
  /\ implementations[1] # implementations[2]
  /\ last_step.did = "tested"
  /\ last_step.category = "content"
  /\ last_step.computes = 2

\* the type code _run_single_test maps the payload of the last visit to
LastTypeCode == _obj_type_to_swhid_code(category_object_type(last_step.category))

\* the loaded candidates whose capability declaration lacks that code
LackingCandidates ==
  {i \in 1..Len(implementations) :
     LastTypeCode \notin implementations[i].supported_types}

\* C12 as stated: when a payload has been run on the candidates, every
\* candidate whose declaration lacks the payload's type code has a failed
\* outcome the comparator recognises as unsupported, and its compute_swhid was
\* not reached.
C12_UnsupportedShortCircuits ==
  last_step.did = "tested" =>
    /\ \A i \in LackingCandidates :
         /\ ~LastVerdict.results[i].success
         /\ is_unsupported_result(LastVerdict.results[i])
    /\ last_step.computes <= Len(implementations) - Cardinality(LackingCandidates)

(***************************************************************************)
(* Properties of run_single_test (checked under SpecUnit).                 *)
(***************************************************************************)
\* the categories that determine an object type, and the type each determines
ExplicitType(category) ==
  CASE category \in {"content", "content/text"} -> "content"
    [] category \in {"directory", "directory/nested"} -> "directory"
    [] category = "git" -> "snapshot"
    [] category = "revision" -> "revision"
    [] category = "release" -> "release"
    [] OTHER -> "none"

\* C13: a call that got past the extraction works with the type its category
\* determines and does not consult detect_object_type, whatever detection would
\* answer; detection is consulted only without a category or with one that
\* determines no type, and then its answer is the type.
C13_CategoryBeforeDetection ==
  (outcome # <<>> /\ ~call[1].extract_raises) =>
    IF ExplicitType(call[1].category) # "none"
    THEN /\ outcome[1].obj_type = ExplicitType(call[1].category)
         /\ ~outcome[1].detected_used
    ELSE /\ outcome[1].obj_type = call[1].detected
         /\ outcome[1].detected_used

\* a directory payload in which detection would find a repository was run as
\* a directory
C13_Witness ==
  /\ outcome # <<>>
  /\ call[1].category = "directory"
  /\ call[1].detected = "snapshot"
  /\ outcome[1].obj_type = "directory"
  /\ outcome[1].computed

(***************************************************************************)
(* More properties of a run (checked under Spec).                          *)
(***************************************************************************)
\* the configuration entry of the payload visited last
LastEntry ==
  CHOOSE e \in PayloadEntries :
    e.category = last_step.category /\ e.name = last_step.name

\* C14 as stated: when a payload that has both a primary and a secondary
\* expected identifier has been run on the candidates, every candidate that
\* declares its type was dispatched twice and has two outcomes in the outcome
\* map handed to the comparator.
C14_VersionFanOut ==
  (/\ last_step.did = "tested"
   /\ last_step.path = "present"
   /\ LastEntry.expected_swhid # NoSwhid
   /\ LastEntry.expected_swhid_sha256 # NoSwhid) =>
    LET eligible == Len(implementations) - Cardinality(LackingCandidates)
    IN /\ last_step.computes = 2 * eligible
       /\ Len(LastVerdict.results) >= 2 * eligible

(***************************************************************************)
(* Properties of one adapter call (SpecAdapter).                           *)
(***************************************************************************)
\* the call at hand started a child and has returned to its caller
Returned == apc = "returned" /\ child # "none"

\* C15: whenever the child exceeded the wall-clock timeout, the memory limit
\* or the CPU-time limit, the call returns with the child ended and with a
\* failure of kind TIMEOUT or RESOURCE_LIMIT, never of another kind.
C15_LimitsReportedAsLimits ==
  (Returned /\ invocation[1].behaviour.exceeds # "none") =>
    /\ child = "exited"
    /\ ~adapter_result[1].success
    /\ adapter_result[1].code \in {"TIMEOUT", "RESOURCE_LIMIT"}

\* the three parts of C16
C16_NeverStuck ==
  (invocation # <<>> /\ apc # "returned") => ENABLED NextAdapter

C16_GracefulThenForced ==
  (Returned /\ invocation[1].behaviour.exceeds = "wall_clock") =>
    /\ signals \in {<<"SIGTERM">>, <<"SIGTERM", "SIGKILL">>}
    /\ (Len(signals) = 2) <=> ~invocation[1].behaviour.honours_sigterm
    /\ adapter_result[1].code = "TIMEOUT"

C16_NoProcessLeft ==
  Returned => child # "running" /\ helper # "running"

\* C16: every adapter call ends; when the wall-clock timeout expires the
\* adapter sends SIGTERM, sends SIGKILL only if the child outlived the grace
\* period, and fails with a TIMEOUT outcome; once the call has returned no
\* process it started is still running.
C16_TimeoutEndsChild ==
  /\ C16_NeverStuck
  /\ C16_GracefulThenForced
  /\ C16_NoProcessLeft

\* the child ended with a non-zero exit code, wrote something that is not a
\* response, or wrote a response with ok false
NonZeroExit == invocation[1].behaviour.returncode # 0
MalformedReply ==
  invocation[1].behaviour.returncode = 0
  /\ invocation[1].behaviour.stdout.shape # "json"
ErrorReply ==
  invocation[1].behaviour.returncode = 0
  /\ invocation[1].behaviour.stdout.shape = "json"
  /\ ~invocation[1].behaviour.stdout.ok

\* C17: a non-zero exit code or a response that cannot be parsed gives a
\* failure of kind IO_ERROR, a response with ok false gives a failure of the
\* kind embedded in the response, and none of the three gives an identifier.
C17_ProtocolFailuresTyped ==
  (Returned /\ invocation[1].behaviour.exceeds = "none") =>
    /\ (NonZeroExit \/ MalformedReply) =>
         ~adapter_result[1].success /\ adapter_result[1].code = "IO_ERROR"
    /\ ErrorReply =>
         /\ ~adapter_result[1].success
         /\ adapter_result[1].code = invocation[1].behaviour.stdout.code

\* the keys a request must carry for a call with the given keyword options
required_keys(options) == {"op", "payload_path", "obj_type"} \cup options

\* C18: a call is one exchange: once it has returned (the child having
\* answered), exactly one request was written, carrying the operation, the
\* payload path, the object type and the caller's options (commit, tag,
\* version), and exactly one response was read, whichever path the child
\* wrapper took.
C18_OneExchangeWithOptions ==
  (apc = "returned"
   /\ invocation[1].behaviour.kind \in
        {"success", "handler_exception", "load_failure"}) =>
    /\ Len(sent) = 1
    /\ sent[1].op = "compute"
    /\ required_keys(invocation[1].options) \subseteq sent[1].keys
    /\ Len(received) = 1

\* the child's environment for the call at hand
ChildEnv == child_env[1]

\* two orchestrator environments are the same on the allow-listed variables
SameOnAllowList(e1, e2) == \A n \in AllowList : e1[n] = e2[n]

\* an environment started the child and the two properties of the claim hold
\* of it: nothing outside the allow-list, nothing that depends on it
OnlyAllowListed ==
  /\ \A n \in EnvNames \ AllowList : ChildEnv[n] = Unset
  /\ \A e \in OrchestratorEnvironments :
       SameOnAllowList(e, invocation[1].environ) =>
         _prepare_environment(invocation[1].clean_env, e) = ChildEnv

\* C19 as stated: for every adapter call the child's environment holds only
\* allow-listed variables and does not depend on any other variable of the
\* orchestrator's environment.
C19_EnvAllowListedAlways ==
  child_env # <<>> => OnlyAllowListed

\* C19, amended: the same for every adapter call whose adapter was built with
\* clean_env set (the default).
C19_EnvAllowListedWhenClean ==
  (child_env # <<>> /\ invocation[1].clean_env) => OnlyAllowListed

\* a child was started with clean_env set by an orchestrator whose
\* environment holds a variable outside the allow-list
C19_Witness ==
  /\ child_env # <<>>
  /\ invocation[1].clean_env
  /\ invocation[1].environ["API_TOKEN"] # Unset
  /\ invocation[1].environ["PYTHONPATH"] # Unset

(***************************************************************************)
(* Properties of the temp-directory registry (SpecTemp).                   *)
(***************************************************************************)
\* the directories created so far
Created == 1..made

\* the directories a worker has created and is about to append
Held == {wdir[w] : w \in {x \in DOMAIN wpc : wpc[x] = "made"}}

Count(seq, d) == Cardinality({i \in DOMAIN seq : seq[i] = d})

\* while the process runs every directory created is in the registry once,
\* unless the worker that created it is between mkdtemp and append
C20_EveryDirRecorded ==
  tpc = "running" =>
    \A d \in Created : Count(_temp_dirs, d) = IF d \in Held THEN 0 ELSE 1

\* C20 as stated: every temporary directory created, by any worker and
\* whether or not its extraction succeeded, is recorded; the cleanup at
\* process exit releases each exactly once and leaves the registry empty.
C20_ReleasedExactlyOnce ==
  /\ C20_EveryDirRecorded
  /\ tpc = "exited" =>
       /\ _temp_dirs = <<>>
       /\ \A d \in Created : Count(releases, d) = 1

\* C20, amended: every temporary directory created is recorded; the cleanup
\* at process exit tries to release each exactly once, releases it unless its
\* removal raises (such a directory stays on disk), never releases one twice,
\* and leaves the registry empty.
C20_ReleaseAttemptedOnce ==
  /\ C20_EveryDirRecorded
  /\ tpc = "exited" =>
       /\ _temp_dirs = <<>>
       /\ \A d \in Created :
            /\ Count(attempts, d) = 1
            /\ Count(releases, d) = IF d \in unremovable THEN 0 ELSE 1
            /\ d \in on_disk <=> d \in unremovable

\* the process has exited after two workers extracted concurrently (the
\* second directory was appended first), one extraction raised, one directory
\* could not be removed and one was released
C20_Witness ==
  /\ tpc = "exited"
  /\ made = MaxDirs
  /\ attempts # <<>> /\ attempts[1] = 2
  /\ extract_failed # {}
  /\ unremovable # {}
  /\ releases # <<>>

(***************************************************************************)
(* Properties of discovery (SpecDiscover).                                 *)
(***************************************************************************)
\* the tests derived for a ref with a category
TestsOf(d, ref, category) ==
  {i \in DOMAIN d.tests : d.tests[i].ref = ref /\ d.tests[i].category = category}

\* C21: discovery returns exactly the local branches and the annotated tags
\* of the repository (no remote-tracking ref, no lightweight tag), sorted and
\* without duplicates, and derives exactly one test per ref: a revision test
\* for each branch and a release test for each tag.
C21_DiscoveryListsLocalAndAnnotated ==
  discovery # <<>> =>
    LET d == discovery[1]
        r == repo[1]
    IN /\ discover_flags[1] => d.branches = sorted_set(r.local)
       /\ discover_flags[2] => d.tags = sorted_set(r.tags \cap AnnotatedTagNames)
       /\ Len(d.tests) = Len(d.branches) + Len(d.tags)
       /\ \A i \in DOMAIN d.branches :
            Cardinality(TestsOf(d, d.branches[i], "revision")) = 1
       /\ \A i \in DOMAIN d.tags :
            Cardinality(TestsOf(d, d.tags[i], "release")) = 1

(***************************************************************************)
(* Properties of commit resolution (SpecResolve)                           *)
(***************************************************************************)
\* resolution is attempted for references that are neither HEAD nor 40 long
ResolutionAttempted(commit) == commit \notin {NoCommit, "HEAD", FullSha}

\* C22: for a revision payload with a commit reference, every candidate that
\* can compute revisions is handed the same reference string, the full SHA
\* when resolution succeeds and the original reference when it fails or times
\* out, and resolution never keeps a candidate from being invoked nor makes
\* its outcome a failure: the outcome fails exactly when the candidate raises.
C22_SameReferenceToEveryCandidate ==
  (handed # <<>> /\ ref_call[1].obj_type = "revision" /\ ref_call[1].commit # NoCommit) =>
    LET c == ref_call[1]
        h == handed[1]
        able == {i \in DOMAIN h : "rev" \in c.impls[i].supported_types}
    IN /\ \A i \in able : \A j \in able : h[i].reference = h[j].reference
       /\ \A i \in able :
            /\ h[i].invoked
            /\ (ResolutionAttempted(c.commit) /\ c.git[i] = "resolved")
                 => h[i].reference = FullSha
            /\ (ResolutionAttempted(c.commit) /\ c.git[i] # "resolved")
                 => h[i].reference = c.commit
            /\ h[i].result.success = (c.impls[i].raises = NoError)

(***************************************************************************)
(* Properties of the synthetic repository (SpecSynth)                      *)
(***************************************************************************)
\* C23: two constructions of the synthetic repository, at different wall-clock
\* times and under different host environments, give the same identifiers for
\* its commit, its branch and its annotated tag.
C23_SyntheticRepoReproducible ==
  built # <<>> =>
    /\ built[1].main = built[2].main
    /\ built[1].initial = built[2].initial
    /\ built[1].feature = built[2].feature
    /\ built[1].tag = built[2].tag

LastAsksDiscovery == LastEntry.discover_branches \/ LastEntry.discover_tags

\* C25: every visit of a selected payload ends in a skip or in a dispatch that
\* completes: candidates are invoked only by a visit that found or made the
\* payload, never by a visit that skipped it, and a payload that is not
\* expanded into discovered refs leaves exactly one verdict, its own, at the
\* end of the list.
C25_PayloadLifecycle ==
  last_step # NoStep =>
    /\ last_step.did \in {"tested", "skipped", "discovered", "repo_missing"}
    /\ last_step.computes > 0 => last_step.did \in {"tested", "discovered"}
    /\ last_step.did = "skipped" => last_step.computes = 0
    /\ ~LastAsksDiscovery =>
         /\ all_results # <<>>
         /\ LastVerdict.category = last_step.category
         /\ LastVerdict.origin = last_step.name
         /\ LastVerdict.payload_name = last_step.name

SomeSupporting == supported_results_of(results) # <<>>

\* C27: for a negative test with at least one supporting outcome, each
\* comparator returns all_match = TRUE only if every supporting outcome is a
\* failure.
C27_NegativeAgreesOnlyOnFailure ==
  (expected_error # NoExpectedError /\ SomeSupporting) =>
    /\ (comparison # <<>> /\ comparison[1].all_match)
         => all_failed_of(supported_results_of(results))
    /\ (hcomparison # <<>> /\ hcomparison[1].all_match)
         => all_failed_of(supported_results_of(results))

\* every outcome of the map carries version 1
PrimaryOnly == \A i \in 1..Len(results) : results[i].version = 1

\* C29: on a map whose outcomes all have version 1, with no secondary expected
\* identifier, compare_results and _compare_results return the same all_match.
C29_ComparatorsEquivalent ==
  (/\ comparison # <<>>
   /\ hcomparison # <<>>
   /\ PrimaryOnly
   /\ expected_swhid_sha256 = NoSwhid) =>
    comparison[1].all_match = hcomparison[1].all_match

(***************************************************************************)
(* Properties of one test and the comparators (SpecUnit)                   *)
(***************************************************************************)
\* the candidate of the call declares the type code of the payload
DeclaresType ==
  _obj_type_to_swhid_code(object_type_for(call[1].category, call[1].detected).obj_type)
    \in call[1].supported_types

\* the extraction or compute_swhid raised
GenuineFailure ==
  call[1].extract_raises \/ (outcome[1].computed /\ call[1].raises # NoError)

\* C28: the outcome of a test is an unsupported-type outcome for the comparator
\* only if the candidate does not declare the payload's type code; when a
\* candidate that declares it fails genuinely, whatever the text, the outcome
\* counts as a failure, and a payload on which that candidate is the only one
\* and which is not a negative test does not get all_match = TRUE.
C28_UnsupportedOnlyByDeclaration ==
  outcome # <<>> =>
    LET r == outcome[1].result IN
    /\ is_unsupported_result(r) => ~DeclaresType
    /\ (DeclaresType /\ GenuineFailure) =>
         /\ ~compare_results(<<r>>, NoSwhid, NoSwhid, NoExpectedError).all_match
         /\ ~harness_compare_results(<<r>>, NoSwhid, NoExpectedError).all_match

(***************************************************************************)
(* More properties of discovery (SpecDiscover).                            *)
(***************************************************************************)
\* C30: the tests derived by one discovery have pairwise distinct names: two
\* different refs, whether branches or tags, never get the same derived name.
C30_DerivedNamesDistinct ==
  discovery # <<>> =>
    LET tests == discovery[1].tests
    IN \A i \in DOMAIN tests : \A j \in DOMAIN tests :
         i # j => tests[i].test_name # tests[j].test_name

====
